---------------------------- MODULE Spec2Model ----------------------------
(***************************************************************************)
(* A model of the optionrs pricing engines: the analytic calculator        *)
(* registry, the PDE, Monte Carlo and binomial engine configurations, and  *)
(* the CommonParams value.  Floating point quantities are modelled by      *)
(* small integers where only their sign or order decides the control flow, *)
(* and closed-form prices by the name of the formula that produced them.   *)
(***************************************************************************)
EXTENDS Integers, Sequences, FiniteSets, TLC

VARIABLES
    calculators,   \* AnalyticEngine.calculators: kind -> calculator
    anLast,        \* the last call on the analytic engine or on a calculator
    pdeEngines,    \* the PDE engines that exist
    pdeLast,       \* the last PDE configuration call
    binEngines,    \* the binomial engines that exist
    binLast,       \* the last binomial configuration call
    cp,            \* a CommonParams value (the original)
    cpLast,        \* the last CommonParams constructor call
    mc,            \* the Monte Carlo engine
    mcLast,        \* the last call on the Monte Carlo engine
    par,           \* the parallel operation in flight
    tot,           \* the parallel payoff total of a price call, step by step
    sh,            \* one engine instance and the price calls running on it
    px,            \* the last price call, with the engine it was made on
    th,            \* one ThomasSolver call, step by step
    iv,            \* one black_scholes_call_implied_vol call, loop by loop
    ex,            \* the last call on an exercise rule
    st,            \* the caller's data slice and the last calc_percentage call
    li,            \* the last linear_interpolate call
    pa,            \* the last simulate_path call
    ly,            \* the last backward step of a PDE layer
    tp,            \* the last total payoff of a Monte Carlo price call
    bf,            \* the factors of the last binomial price call
    dd             \* the d1 and d2 of the last analytic price call

anVars  == <<calculators, anLast>>
pdeVars == <<pdeEngines, pdeLast>>
binVars == <<binEngines, binLast>>
cpVars  == <<cp, cpLast>>
mcVars  == <<mc, mcLast, par>>
totVars == <<tot>>
shVars  == <<sh>>
pxVars  == <<px>>
thVars  == <<th>>
ivVars  == <<iv>>
exVars  == <<ex>>
stVars  == <<st>>
liVars  == <<li>>
paVars  == <<pa>>
lyVars  == <<ly>>
tpVars  == <<tp>>
bfVars  == <<bf>>
ddVars  == <<dd>>
vars    == <<anVars, pdeVars, binVars, cpVars, mcVars, totVars, shVars, pxVars, thVars, ivVars, exVars, stVars, liVars, paVars, lyVars, tpVars, bfVars, ddVars>>

\* What a call on one component leaves alone
anRest  == <<pdeVars, binVars, cpVars, mcVars, totVars, shVars, pxVars, thVars, ivVars, exVars, stVars, liVars, paVars, lyVars, tpVars, bfVars, ddVars>>
pdeRest == <<anVars, binVars, cpVars, mcVars, totVars, shVars, pxVars, thVars, ivVars, exVars, stVars, liVars, paVars, lyVars, tpVars, bfVars, ddVars>>
binRest == <<anVars, pdeVars, cpVars, mcVars, totVars, shVars, pxVars, thVars, ivVars, exVars, stVars, liVars, paVars, lyVars, tpVars, bfVars, ddVars>>
cpRest  == <<anVars, pdeVars, binVars, mcVars, totVars, shVars, pxVars, thVars, ivVars, exVars, stVars, liVars, paVars, lyVars, tpVars, bfVars, ddVars>>
mcRest  == <<anVars, pdeVars, binVars, cpVars, totVars, shVars, pxVars, thVars, ivVars, exVars, stVars, liVars, paVars, lyVars, tpVars, bfVars, ddVars>>
totRest == <<anVars, pdeVars, binVars, cpVars, mcVars, shVars, pxVars, thVars, ivVars, exVars, stVars, liVars, paVars, lyVars, tpVars, bfVars, ddVars>>
shRest  == <<anVars, pdeVars, binVars, cpVars, mcVars, totVars, pxVars, thVars, ivVars, exVars, stVars, liVars, paVars, lyVars, tpVars, bfVars, ddVars>>
pxRest  == <<anVars, pdeVars, binVars, cpVars, mcVars, totVars, shVars, thVars, ivVars, exVars, stVars, liVars, paVars, lyVars, tpVars, bfVars, ddVars>>
thRest  == <<anVars, pdeVars, binVars, cpVars, mcVars, totVars, shVars, pxVars, ivVars, exVars, stVars, liVars, paVars, lyVars, tpVars, bfVars, ddVars>>
ivRest  == <<anVars, pdeVars, binVars, cpVars, mcVars, totVars, shVars, pxVars, thVars, exVars, stVars, liVars, paVars, lyVars, tpVars, bfVars, ddVars>>
exRest  == <<anVars, pdeVars, binVars, cpVars, mcVars, totVars, shVars, pxVars, thVars, ivVars, stVars, liVars, paVars, lyVars, tpVars, bfVars, ddVars>>
stRest  == <<anVars, pdeVars, binVars, cpVars, mcVars, totVars, shVars, pxVars, thVars, ivVars, exVars, liVars, paVars, lyVars, tpVars, bfVars, ddVars>>
liRest  == <<anVars, pdeVars, binVars, cpVars, mcVars, totVars, shVars, pxVars, thVars, ivVars, exVars, stVars, paVars, lyVars, tpVars, bfVars, ddVars>>
paRest  == <<anVars, pdeVars, binVars, cpVars, mcVars, totVars, shVars, pxVars, thVars, ivVars, exVars, stVars, liVars, lyVars, tpVars, bfVars, ddVars>>
lyRest  == <<anVars, pdeVars, binVars, cpVars, mcVars, totVars, shVars, pxVars, thVars, ivVars, exVars, stVars, liVars, paVars, tpVars, bfVars, ddVars>>
tpRest  == <<anVars, pdeVars, binVars, cpVars, mcVars, totVars, shVars, pxVars, thVars, ivVars, exVars, stVars, liVars, paVars, lyVars, bfVars, ddVars>>
bfRest  == <<anVars, pdeVars, binVars, cpVars, mcVars, totVars, shVars, pxVars, thVars, ivVars, exVars, stVars, liVars, paVars, lyVars, tpVars, ddVars>>
ddRest  == <<anVars, pdeVars, binVars, cpVars, mcVars, totVars, shVars, pxVars, thVars, ivVars, exVars, stVars, liVars, paVars, lyVars, tpVars, bfVars>>

(***************************************************************************)
(* Results: Result<f64> plus the panic outcome.                            *)
(***************************************************************************)
Ok(formula, n) == [tag |-> "Ok", err |-> "", formula |-> formula, num |-> n]
Err(e)         == [tag |-> "Err", err |-> e, formula |-> "", num |-> 0]
Panic(msg)     == [tag |-> "Panic", err |-> msg, formula |-> "", num |-> 0]
NoResult       == [tag |-> "None", err |-> "", formula |-> "", num |-> 0]

Max(a, b) == IF a >= b THEN a ELSE b
Min(a, b) == IF a <= b THEN a ELSE b

(***************************************************************************)
(* Payoffs (traits/payoff.rs).                                             *)
(***************************************************************************)
AnalyticPayoffType ==
    {"VanillaCall", "VanillaPut", "CashOrNothingCall", "CashOrNothingPut",
     "AssertOrNothingCall", "AssertOrNothingPut", "DownAndOutCall", "UpAndOutCall"}

NoKind == "None"

\* The payoff structs of the crate, and a payoff implemented outside it
\* ("UserPayoff"), which may declare any analytic kind or none.
BuiltinPayoffs ==
    {[type |-> "CallPayoff", kind |-> "VanillaCall"],
     [type |-> "PutPayoff", kind |-> "VanillaPut"],
     [type |-> "CashOrNothingCallPayoff", kind |-> "CashOrNothingCall"],
     [type |-> "DownAndOutCallPayoff", kind |-> "DownAndOutCall"]}

UserPayoffs == {[type |-> "UserPayoff", kind |-> k] : k \in AnalyticPayoffType \cup {NoKind}}

Payoffs == BuiltinPayoffs \cup UserPayoffs

\* Payoff::analytic_type
analytic_type(payoff) == payoff.kind

Strike == 100
Payout == 10

\* Payoff::payoff: the value at a spot, or the panic of todo!()
PayoffAt(payoff, spot) ==
    CASE payoff.type = "CallPayoff" -> Ok("payoff", Max(spot - Strike, 0))
      [] payoff.type = "PutPayoff" -> Ok("payoff", Max(Strike - spot, 0))
      [] payoff.type = "CashOrNothingCallPayoff" ->
            Ok("payoff", IF spot >= Strike THEN Payout ELSE 0)
      [] payoff.type = "DownAndOutCallPayoff" -> Panic("todo")
      [] OTHER -> Ok("payoff", 0)

(***************************************************************************)
(* Exercise rules (traits/exercise.rs).                                    *)
(***************************************************************************)
ExerciseRules == {"EuropeanExercise", "AmericanExercise"}

is_european(rule) == rule = "EuropeanExercise"

(***************************************************************************)
(* Market parameters handed to a price call: values CommonParams::new      *)
(* accepts.  Volatility in percent, maturity in years.                     *)
(***************************************************************************)
Spots == {90, 110}
Vols  == {0, 20}
Times == {0, 1}

MarketParams == [spot : Spots, volatility : Vols, time_to_maturity : Times]

\* The market parameters the analytic calls are tried with
AnalyticParams == [spot : {110}, volatility : Vols, time_to_maturity : Times]

(***************************************************************************)
(* Analytic calculators (core/analytic/calculators).                       *)
(***************************************************************************)
Calculators == {"VanillaCalculator", "BinaryCalculator", "BarrierCalculator"}

supported_types(calc) ==
    CASE calc = "VanillaCalculator" -> {"VanillaCall", "VanillaPut"}
      [] calc = "BinaryCalculator" -> {"CashOrNothingCall", "CashOrNothingPut"}
      [] calc = "BarrierCalculator" -> {"DownAndOutCall", "UpAndOutCall"}

\* utils/statistics.rs calculate_d1_d2: the checks that can fail for
\* accepted market parameters and a positive strike
calculate_d1_d2(params) ==
    IF params.volatility <= 0 THEN Err("InvalidParameter")
    ELSE IF params.time_to_maturity = 0 THEN Err("InvalidParameter")
    ELSE Ok("d1d2", 0)

VanillaCalculate(params, payoff) ==
    IF params.time_to_maturity = 0 THEN PayoffAt(payoff, params.spot)
    ELSE IF payoff.type \notin {"CallPayoff", "PutPayoff"} THEN Err("InvalidParameter")
    ELSE IF calculate_d1_d2(params).tag = "Err" THEN calculate_d1_d2(params)
    ELSE IF payoff.type = "CallPayoff" THEN Ok("vanilla_call", 0)
    ELSE Ok("vanilla_put", 0)

BinaryCalculate(params, payoff) ==
    IF params.time_to_maturity = 0 THEN PayoffAt(payoff, params.spot)
    ELSE IF payoff.type # "CashOrNothingCallPayoff" THEN Err("NotImplemented")
    ELSE IF calculate_d1_d2(params).tag = "Err" THEN calculate_d1_d2(params)
    ELSE Ok("cash_or_nothing_call", 0)

BarrierCalculate(params, payoff) ==
    IF params.time_to_maturity = 0 THEN PayoffAt(payoff, params.spot)
    ELSE IF payoff.type # "DownAndOutCallPayoff" THEN Err("InvalidParameter")
    ELSE Ok("down_and_out_call", 0)

\* AnalyticCalculator::calculate, dispatched on the calculator
calculate(calc, params, payoff) ==
    CASE calc = "VanillaCalculator" -> VanillaCalculate(params, payoff)
      [] calc = "BinaryCalculator" -> BinaryCalculate(params, payoff)
      [] calc = "BarrierCalculator" -> BarrierCalculate(params, payoff)

\* The concrete payoff types a calculator downcasts to
HandledTypes(calc) ==
    CASE calc = "VanillaCalculator" -> {"CallPayoff", "PutPayoff"}
      [] calc = "BinaryCalculator" -> {"CashOrNothingCallPayoff"}
      [] calc = "BarrierCalculator" -> {"DownAndOutCallPayoff"}

(***************************************************************************)
(* AnalyticEngine (core/analytic/engine.rs).                               *)
(***************************************************************************)
\* The registry AnalyticEngine::new builds
AnalyticEngineNew ==
    [k \in UNION {supported_types(c) : c \in Calculators} |->
        CHOOSE c \in Calculators : k \in supported_types(c)]

\* HashMap::insert for every supported type
RegisterInto(reg, calc) ==
    [k \in DOMAIN reg \cup supported_types(calc) |->
        IF k \in supported_types(calc) THEN calc ELSE reg[k]]

\* A removal that drops every kind of the calculator that served typ
RemoveWholeCalculator(reg, typ) ==
    [k \in {j \in DOMAIN reg : typ \notin DOMAIN reg \/ reg[j] # reg[typ]} |-> reg[k]]

\* HashMap::remove
RemoveFrom(reg, typ) == [k \in DOMAIN reg \ {typ} |-> reg[k]]

\* AnalyticEngine::get_calculator
get_calculator(reg, typ) == IF typ \in DOMAIN reg THEN reg[typ] ELSE "NoCalculator"

\* The error for a payoff that declares no analytic kind
NoAnalyticKindError == Err("InvalidParameter")

\* AnalyticEngine::price
AnalyticPrice(reg, params, payoff, rule) ==
    IF ~is_european(rule) THEN Err("InvalidParameter")
    ELSE IF analytic_type(payoff) = NoKind THEN NoAnalyticKindError
    ELSE IF get_calculator(reg, analytic_type(payoff)) = "NoCalculator"
         THEN Err("NotImplemented")
    ELSE calculate(get_calculator(reg, analytic_type(payoff)), params, payoff)

\* The calculator a price call hands the payoff to, if any
Reached(reg, payoff, rule) ==
    IF is_european(rule) /\ analytic_type(payoff) # NoKind
    THEN get_calculator(reg, analytic_type(payoff))
    ELSE "NoCalculator"

NoCall ==
    [op |-> "none", calc |-> "NoCalculator",
     params |-> [spot |-> 110, volatility |-> 0, time_to_maturity |-> 0],
     payoff |-> [type |-> "UserPayoff", kind |-> NoKind], rule |-> "EuropeanExercise",
     typ |-> NoKind, before |-> AnalyticEngineNew, restored |-> FALSE,
     result |-> NoResult]

\* Whether the call before this one was a register_calculator that brought
\* back a kind that had been removed
JustRestored(kind) ==
    /\ anLast.op = "register"
    /\ kind \notin DOMAIN anLast.before
    /\ kind \in DOMAIN calculators

register_calculator(calc) ==
    /\ calculators' = RegisterInto(calculators, calc)
    /\ anLast' = [NoCall EXCEPT !.op = "register", !.calc = calc, !.before = calculators]
    /\ UNCHANGED anRest

remove_calculator(typ) ==
    /\ calculators' = RemoveFrom(calculators, typ)
    /\ anLast' = [NoCall EXCEPT !.op = "remove", !.typ = typ, !.before = calculators]
    /\ UNCHANGED anRest

price(params, payoff, rule) ==
    /\ anLast' = [NoCall EXCEPT !.op = "price",
                    !.calc = Reached(calculators, payoff, rule), !.params = params,
                    !.payoff = payoff, !.rule = rule, !.before = calculators,
                    !.restored = JustRestored(analytic_type(payoff)),
                    !.result = AnalyticPrice(calculators, params, payoff, rule)]
    /\ UNCHANGED calculators
    /\ UNCHANGED anRest

\* A calculator called directly, outside the engine
calculator_calculate(calc, params, payoff) ==
    /\ anLast' = [NoCall EXCEPT !.op = "calculate", !.calc = calc, !.params = params,
                    !.payoff = payoff, !.before = calculators,
                    !.result = calculate(calc, params, payoff)]
    /\ UNCHANGED calculators
    /\ UNCHANGED anRest

InitAnalytic ==
    /\ calculators = AnalyticEngineNew
    /\ anLast = NoCall

NextAnalytic ==
    \/ \E calc \in Calculators : register_calculator(calc)
    \/ \E typ \in AnalyticPayoffType : remove_calculator(typ)
    \/ \E params \in AnalyticParams, payoff \in Payoffs, rule \in ExerciseRules :
         price(params, payoff, rule)
    \/ \E calc \in Calculators, params \in AnalyticParams, payoff \in Payoffs :
         calculator_calculate(calc, params, payoff)

(***************************************************************************)
(* PDEEngine configuration (core/pde/engine.rs).                           *)
(***************************************************************************)
MaxPDEEngines == 2

MinGrid == 50
MinLogGrid == 100

GridSteps == {49, 50, 99, 100}

\* The check of PDEEngine::new on the grid size
PDENewRejects(x_steps, t_steps, use_log_space) ==
    \/ x_steps < MinGrid \/ t_steps < MinGrid
    \/ use_log_space /\ (x_steps < MinLogGrid \/ t_steps < MinLogGrid)

\* The check of PDEEngineExt::set_grid_size
SetGridRejects(x_steps, t_steps) ==
    x_steps < MinGrid \/ t_steps < MinGrid

NoPDECall ==
    [op |-> "none", idx |-> 0, x_steps |-> 0, t_steps |-> 0,
     before |-> <<0, 0>>, result |-> NoResult]

PDEEngineNew(x_steps, t_steps, use_log_space) ==
    LET rejected == PDENewRejects(x_steps, t_steps, use_log_space)
    IN  /\ rejected \/ Len(pdeEngines) < MaxPDEEngines
        /\ pdeEngines' =
              IF rejected THEN pdeEngines
              ELSE Append(pdeEngines, [x_steps |-> x_steps, t_steps |-> t_steps,
                                       use_log_space |-> use_log_space])
        /\ pdeLast' = [NoPDECall EXCEPT !.op = "new", !.idx = Len(pdeEngines'),
                          !.x_steps = x_steps, !.t_steps = t_steps,
                          !.result = IF rejected THEN Err("InvalidParameter")
                                     ELSE Ok("engine", 0)]
        /\ UNCHANGED pdeRest

set_grid_size(i, x_steps, t_steps) ==
    LET e == pdeEngines[i]
        rejected == SetGridRejects(x_steps, t_steps)
    IN  /\ pdeEngines' =
              IF rejected THEN pdeEngines
              ELSE [pdeEngines EXCEPT ![i].x_steps = x_steps, ![i].t_steps = t_steps]
        /\ pdeLast' = [NoPDECall EXCEPT !.op = "set_grid_size", !.idx = i,
                          !.x_steps = x_steps, !.t_steps = t_steps,
                          !.before = <<e.x_steps, e.t_steps>>,
                          !.result = IF rejected THEN Err("InvalidParameter")
                                     ELSE Ok("unit", 0)]
        /\ UNCHANGED pdeRest

\* clone, then set_grid_size on the clone
with_new_grid_size(i, x_steps, t_steps) ==
    LET e == pdeEngines[i]
        rejected == SetGridRejects(x_steps, t_steps)
    IN  /\ rejected \/ Len(pdeEngines) < MaxPDEEngines
        /\ pdeEngines' =
              IF rejected THEN pdeEngines
              ELSE Append(pdeEngines, [e EXCEPT !.x_steps = x_steps, !.t_steps = t_steps])
        /\ pdeLast' = [NoPDECall EXCEPT !.op = "with_new_grid_size", !.idx = i,
                          !.x_steps = x_steps, !.t_steps = t_steps,
                          !.before = <<e.x_steps, e.t_steps>>,
                          !.result = IF rejected THEN Err("InvalidParameter")
                                     ELSE Ok("engine", 0)]
        /\ UNCHANGED pdeRest

InitPDE ==
    /\ pdeEngines = << >>
    /\ pdeLast = NoPDECall

NextPDE ==
    \/ \E x \in GridSteps, t \in GridSteps, l \in BOOLEAN : PDEEngineNew(x, t, l)
    \/ \E i \in 1..Len(pdeEngines), x \in GridSteps, t \in GridSteps :
         set_grid_size(i, x, t)
    \/ \E i \in 1..Len(pdeEngines), x \in GridSteps, t \in GridSteps :
         with_new_grid_size(i, x, t)

(***************************************************************************)
(* BinomialEngine configuration (core/binomial.rs).                        *)
(***************************************************************************)
MaxBinEngines == 2

MinSteps == 10

BinSteps == {0, 9, 10, 11, 2000}

\* The check BinomialEngine::new makes
BinNewRejects(steps) == steps < MinSteps

\* A set_steps check that is off by one
SetStepsRejectsBelowNine(steps) == steps < MinSteps - 1

\* The check BinomialEngineExt::set_steps makes
SetStepsRejects(steps) == steps < MinSteps

\* The step count set_steps stores on success
StoredSteps(steps) == steps

\* BinomialEngineExt::get_steps
get_steps(engine) == engine.steps

NoBinCall ==
    [op |-> "none", idx |-> 0, steps |-> 0, before |-> 0, len |-> 0,
     result |-> NoResult]

BinomialEngineNew(steps) ==
    /\ BinNewRejects(steps) \/ Len(binEngines) < MaxBinEngines
    /\ binEngines' = IF BinNewRejects(steps) THEN binEngines
                     ELSE Append(binEngines, [steps |-> steps])
    /\ binLast' = [NoBinCall EXCEPT !.op = "new", !.idx = Len(binEngines'),
                      !.steps = steps, !.len = Len(binEngines),
                      !.result = IF BinNewRejects(steps) THEN Err("InvalidParameter")
                                 ELSE Ok("engine", 0)]
    /\ UNCHANGED binRest

\* with_steps is Self::new
with_steps(steps) ==
    /\ BinNewRejects(steps) \/ Len(binEngines) < MaxBinEngines
    /\ binEngines' = IF BinNewRejects(steps) THEN binEngines
                     ELSE Append(binEngines, [steps |-> steps])
    /\ binLast' = [NoBinCall EXCEPT !.op = "with_steps", !.idx = Len(binEngines'),
                      !.steps = steps, !.len = Len(binEngines),
                      !.result = IF BinNewRejects(steps) THEN Err("InvalidParameter")
                                 ELSE Ok("engine", 0)]
    /\ UNCHANGED binRest

set_steps(i, steps) ==
    /\ binEngines' = IF SetStepsRejects(steps) THEN binEngines
                     ELSE [binEngines EXCEPT ![i].steps = StoredSteps(steps)]
    /\ binLast' = [NoBinCall EXCEPT !.op = "set_steps", !.idx = i, !.steps = steps,
                      !.before = binEngines[i].steps, !.len = Len(binEngines),
                      !.result = IF SetStepsRejects(steps) THEN Err("InvalidParameter")
                                 ELSE Ok("unit", 0)]
    /\ UNCHANGED binRest

GetStepsCall(i) ==
    /\ binLast' = [NoBinCall EXCEPT !.op = "get_steps", !.idx = i,
                      !.before = binEngines[i].steps, !.len = Len(binEngines),
                      !.result = Ok("steps", get_steps(binEngines[i]))]
    /\ UNCHANGED binEngines
    /\ UNCHANGED binRest

InitBinomial ==
    /\ binEngines = << >>
    /\ binLast = NoBinCall

NextBinomial ==
    \/ \E n \in BinSteps : BinomialEngineNew(n)
    \/ \E n \in BinSteps : with_steps(n)
    \/ \E i \in 1..Len(binEngines), n \in BinSteps : set_steps(i, n)
    \/ \E i \in 1..Len(binEngines) : GetStepsCall(i)

(***************************************************************************)
(* CommonParams (params/common.rs).  Floats are modelled by integers.      *)
(***************************************************************************)
FloatVals == {-1, 0, 1, 2}
Rates == {-1, 2}
Yields == {1}

NoParams ==
    [spot |-> 0, risk_free_rate |-> 0, volatility |-> 0, dividened_yield |-> 0,
     time_to_maturity |-> 0]

CpOk(v)  == [tag |-> "Ok", err |-> "", value |-> v]
CpErr(e) == [tag |-> "Err", err |-> e, value |-> NoParams]

\* A check that lets a zero spot through
CommonParamsRejectsNegativeSpot(spot, volatility, time_to_maturity) ==
    spot < 0 \/ volatility < 0 \/ time_to_maturity < 0

\* The three checks of CommonParams::new
CommonParamsRejects(spot, volatility, time_to_maturity) ==
    spot <= 0 \/ volatility < 0 \/ time_to_maturity < 0

\* CommonParams::new
CommonParamsNew(spot, risk_free_rate, volatility, dividened_yield, time_to_maturity) ==
    IF CommonParamsRejects(spot, volatility, time_to_maturity)
    THEN CpErr("InvalidParameter")
    ELSE CpOk([spot |-> spot, risk_free_rate |-> risk_free_rate,
               volatility |-> volatility, dividened_yield |-> dividened_yield,
               time_to_maturity |-> time_to_maturity])

\* The value with_spot builds from &self
WithSpotValue(self, new_spot) ==
    CommonParamsNew(new_spot, self.risk_free_rate, self.volatility,
                    self.dividened_yield, self.time_to_maturity)

\* The value with_volatility builds from &self
WithVolatilityValue(self, new_volatility) ==
    CommonParamsNew(self.spot, self.risk_free_rate, new_volatility,
                    self.dividened_yield, self.time_to_maturity)

\* The value with_time builds from &self
WithTimeValue(self, new_maturity) ==
    CommonParamsNew(self.spot, self.risk_free_rate, self.volatility,
                    self.dividened_yield, new_maturity)

\* The receiver after a with_* call: it is borrowed as &self
SelfAfterWith(self, derived) == self

NoCpCall ==
    [op |-> "none", arg |-> 0, args |-> NoParams, before |-> NoParams,
     result |-> CpErr("")]

CommonParams_new(s, r, v, q, t) ==
    LET res == CommonParamsNew(s, r, v, q, t)
    IN  /\ cp' = IF res.tag = "Ok" THEN res.value ELSE cp
        /\ cpLast' = [NoCpCall EXCEPT !.op = "new", !.before = cp, !.result = res,
                         !.args = [spot |-> s, risk_free_rate |-> r, volatility |-> v,
                                   dividened_yield |-> q, time_to_maturity |-> t]]
        /\ UNCHANGED cpRest

with_spot(x) ==
    /\ cp # NoParams
    /\ cp' = SelfAfterWith(cp, WithSpotValue(cp, x))
    /\ cpLast' = [NoCpCall EXCEPT !.op = "with_spot", !.arg = x, !.before = cp,
                     !.args = [cp EXCEPT !.spot = x],
                     !.result = WithSpotValue(cp, x)]
    /\ UNCHANGED cpRest

with_volatility(x) ==
    /\ cp # NoParams
    /\ cp' = SelfAfterWith(cp, WithVolatilityValue(cp, x))
    /\ cpLast' = [NoCpCall EXCEPT !.op = "with_volatility", !.arg = x, !.before = cp,
                     !.args = [cp EXCEPT !.volatility = x],
                     !.result = WithVolatilityValue(cp, x)]
    /\ UNCHANGED cpRest

with_time(x) ==
    /\ cp # NoParams
    /\ cp' = SelfAfterWith(cp, WithTimeValue(cp, x))
    /\ cpLast' = [NoCpCall EXCEPT !.op = "with_time", !.arg = x, !.before = cp,
                     !.args = [cp EXCEPT !.time_to_maturity = x],
                     !.result = WithTimeValue(cp, x)]
    /\ UNCHANGED cpRest

InitParams ==
    /\ cp = NoParams
    /\ cpLast = NoCpCall

NextParams ==
    \/ \E s \in FloatVals, r \in Rates, v \in FloatVals, q \in Yields, t \in FloatVals :
         CommonParams_new(s, r, v, q, t)
    \/ \E x \in FloatVals : with_spot(x)
    \/ \E x \in FloatVals : with_volatility(x)
    \/ \E x \in FloatVals : with_time(x)

(***************************************************************************)
(* MonteCarloEngine (core/monte_carlo.rs).                                 *)
(***************************************************************************)
MaxTasks == 2

MinSimulations == 1000
ParallelThreshold == 1000

SimCounts == {0, 1, 999, 1000, 1001}
TimeSteps == {0, 1, 2}
Seeds == {0, 7}
Processes == {"None", "gbm"}

\* What from_os_rng may seed a master generator with
OsEntropy == {-1, -2}

\* StdRng::seed_from_u64 and StdRng::from_os_rng: a generator is its seed and
\* the number of values drawn from it
seed_from_u64(seed) == [seed |-> seed, draws |-> 0]
from_os_rng(entropy) == [seed |-> entropy, draws |-> 0]

\* RngCore::next_u64: the value drawn in a generator state (distinct states
\* of one stream give distinct values)
next_u64(rng) == rng.seed * 64 + rng.draws + 1

\* The generator of the process the engine holds: SimpleBrownianMotion::new
\* and GeometricBrownianMotion::new take it from the operating system
ProcessRng == from_os_rng(-3)

NoMC ==
    [exists |-> FALSE, num_simulations |-> 0, time_steps |-> 0, process |-> "None",
     use_antithetic |-> FALSE, use_parallel |-> FALSE, seed |-> 0]

NoMCCall ==
    [op |-> "none", n |-> 0, ts |-> 0, path |-> "", before |-> NoMC,
     result |-> NoResult]

NoRng == [seed |-> 0, draws |-> 0]

NoPar == [op |-> "none", num_seeds |-> 0, seeds |-> << >>, w |-> << >>]

\* The checks of MonteCarloEngine::new
MCNewRejects(num_simulations, time_steps) ==
    num_simulations < MinSimulations \/ time_steps < 1

\* use_parallel as MonteCarloEngine::new stores it
ParallelAtNew(use_parallel, num_simulations) ==
    use_parallel /\ num_simulations > ParallelThreshold

\* The check of set_num_simulation
SetNumSimulationRejects(num) == num = 0

\* The check of set_time_steps
SetTimeStepsRejects(time_steps) == time_steps = 0

\* MonteCarloEngine::create_rng
create_rng(engine, entropy) ==
    IF engine.seed # 0 THEN seed_from_u64(engine.seed) ELSE from_os_rng(entropy)

\* The entropy create_rng can take: none is read when the seed is set
EntropyFor(engine) == IF engine.seed # 0 THEN {0} ELSE OsEntropy

\* num_seeds / iters: pairs under antithetic sampling, paths otherwise
NumSeeds(engine) ==
    IF engine.use_antithetic THEN engine.num_simulations \div 2
    ELSE engine.num_simulations

\* The number of paths simulate_paths returns
SerialPathCount(engine) ==
    IF engine.use_antithetic
    THEN 2 * (engine.num_simulations \div 2) + (engine.num_simulations % 2)
    ELSE engine.num_simulations

\* The number of path payoffs calculate_total_payoff_* adds up
PayoffCount(engine) ==
    IF engine.use_antithetic THEN 2 * NumSeeds(engine) ELSE NumSeeds(engine)

\* Whether the worker closure of a parallel operation calls init_rng_with_seed
\* on its clone
WorkerReseeds(op, use_antithetic) ==
    ~(op = "simulate_paths_parallel" /\ use_antithetic)

\* The tasks of a parallel operation that are followed one by one
NTasks(engine) == Min(NumSeeds(engine), MaxTasks)

\* seeds: Vec<u64> = (0..num_seeds).map(|_| master_rng.next_u64()).collect()
PreGenerate(master, n) ==
    [i \in 1..n |-> next_u64([master EXCEPT !.draws = master.draws + i - 1])]

\* The state of a parallel operation when the fan out begins
StartPar(op, engine, master) ==
    [op |-> op, num_seeds |-> NumSeeds(engine),
     seeds |-> PreGenerate(master, NTasks(engine)),
     w |-> [i \in 1..NTasks(engine) |->
              [pc |-> "ready", rng |-> NoRng, start |-> NoRng, seeded |-> FALSE]]]

MonteCarloEngineNew(n, ts, process, anti, parallel, seed) ==
    /\ par.op = "none"
    /\ mc' = IF MCNewRejects(n, ts) THEN mc
             ELSE [exists |-> TRUE, num_simulations |-> n, time_steps |-> ts,
                   process |-> process, use_antithetic |-> anti,
                   use_parallel |-> ParallelAtNew(parallel, n), seed |-> seed]
    /\ mcLast' = [NoMCCall EXCEPT !.op = "new", !.n = n, !.ts = ts, !.before = mc,
                     !.result = IF MCNewRejects(n, ts) THEN Err("InvalidParameter")
                                ELSE Ok("engine", 0)]
    /\ UNCHANGED par
    /\ UNCHANGED mcRest

set_antithetic(anti) ==
    /\ mc.exists /\ par.op = "none"
    /\ mc' = [mc EXCEPT !.use_antithetic = anti]
    /\ mcLast' = [NoMCCall EXCEPT !.op = "set_antithetic", !.before = mc,
                     !.result = Ok("unit", 0)]
    /\ UNCHANGED par
    /\ UNCHANGED mcRest

set_process ==
    /\ mc.exists /\ par.op = "none"
    /\ mc' = [mc EXCEPT !.process = "gbm"]
    /\ mcLast' = [NoMCCall EXCEPT !.op = "set_process", !.before = mc,
                     !.result = Ok("unit", 0)]
    /\ UNCHANGED par
    /\ UNCHANGED mcRest

set_num_simulation(num) ==
    /\ mc.exists /\ par.op = "none"
    /\ mc' = IF SetNumSimulationRejects(num) THEN mc
             ELSE [mc EXCEPT !.num_simulations = num]
    /\ mcLast' = [NoMCCall EXCEPT !.op = "set_num_simulation", !.n = num,
                     !.before = mc,
                     !.result = IF SetNumSimulationRejects(num)
                                THEN Err("InvalidParameter") ELSE Ok("unit", 0)]
    /\ UNCHANGED par
    /\ UNCHANGED mcRest

set_time_steps(ts) ==
    /\ mc.exists /\ par.op = "none"
    /\ mc' = IF SetTimeStepsRejects(ts) THEN mc ELSE [mc EXCEPT !.time_steps = ts]
    /\ mcLast' = [NoMCCall EXCEPT !.op = "set_time_steps", !.ts = ts, !.before = mc,
                     !.result = IF SetTimeStepsRejects(ts)
                                THEN Err("InvalidParameter") ELSE Ok("unit", 0)]
    /\ UNCHANGED par
    /\ UNCHANGED mcRest

\* PriceEngine::calculate_price: the NotSet check, then the serial total in
\* one step or the fan out of calculate_total_payoff_parallel
calculate_price ==
    /\ mc.exists /\ par.op = "none"
    /\ \E entropy \in EntropyFor(mc) :
         IF mc.process = "None"
         THEN /\ mcLast' = [NoMCCall EXCEPT !.op = "price", !.before = mc,
                               !.result = Err("NotSet")]
              /\ UNCHANGED par
         ELSE IF mc.use_parallel
         THEN /\ par' = StartPar("price", mc, create_rng(mc, entropy))
              /\ mcLast' = [NoMCCall EXCEPT !.op = "price", !.before = mc,
                               !.path = "parallel"]
         ELSE /\ mcLast' = [NoMCCall EXCEPT !.op = "price", !.before = mc,
                               !.path = "serial",
                               !.result = Ok("mc_price", PayoffCount(mc))]
              /\ UNCHANGED par
    /\ UNCHANGED mc
    /\ UNCHANGED mcRest

\* simulate_paths: every iteration begins with expect / unwrap on the process
simulate_paths ==
    /\ mc.exists /\ par.op = "none"
    /\ mcLast' = [NoMCCall EXCEPT !.op = "simulate_paths", !.before = mc,
                     !.result = IF mc.process = "None" /\ SerialPathCount(mc) > 0
                                THEN Panic("expect")
                                ELSE Ok("paths", SerialPathCount(mc))]
    /\ UNCHANGED <<mc, par>>
    /\ UNCHANGED mcRest

\* simulate_paths_parallel: the master generator is seeded from self.seed
simulate_paths_parallel ==
    /\ mc.exists /\ par.op = "none"
    /\ par' = StartPar("simulate_paths_parallel", mc, seed_from_u64(mc.seed))
    /\ mcLast' = [NoMCCall EXCEPT !.op = "simulate_paths_parallel", !.before = mc,
                     !.path = "parallel"]
    /\ UNCHANGED mc
    /\ UNCHANGED mcRest

\* A worker takes its seed: clone_box (or the panic of expect on a missing
\* process), then init_rng_with_seed where the closure calls it
WorkerClone(i) ==
    /\ par.op # "none"
    /\ i \in DOMAIN par.w
    /\ par.w[i].pc = "ready"
    /\ par' = IF mc.process = "None"
              THEN [par EXCEPT !.w[i].pc = "panicked"]
              ELSE [par EXCEPT !.w[i].pc = "cloned",
                               !.w[i].seeded = WorkerReseeds(par.op, mc.use_antithetic),
                               !.w[i].rng = IF WorkerReseeds(par.op, mc.use_antithetic)
                                            THEN seed_from_u64(par.seeds[i])
                                            ELSE ProcessRng]
    /\ UNCHANGED <<mc, mcLast>>
    /\ UNCHANGED mcRest

\* The worker simulates its path (or pair): one normal draw per time step
WorkerSimulate(i) ==
    /\ par.op # "none"
    /\ i \in DOMAIN par.w
    /\ par.w[i].pc = "cloned"
    /\ par' = [par EXCEPT !.w[i].pc = "done",
                          !.w[i].start = par.w[i].rng,
                          !.w[i].rng.draws = par.w[i].rng.draws + mc.time_steps]
    /\ UNCHANGED <<mc, mcLast>>
    /\ UNCHANGED mcRest

\* The join: a worker's panic is the caller's
FinishPar ==
    /\ par.op # "none"
    /\ \A i \in DOMAIN par.w : par.w[i].pc \in {"done", "panicked"}
    /\ mcLast' = [mcLast EXCEPT !.result =
                     IF \E i \in DOMAIN par.w : par.w[i].pc = "panicked"
                     THEN Panic("expect")
                     ELSE IF par.op = "price" THEN Ok("mc_price", PayoffCount(mc))
                     ELSE Ok("paths", PayoffCount(mc))]
    /\ par' = NoPar
    /\ UNCHANGED mc
    /\ UNCHANGED mcRest

InitMC ==
    /\ mc = NoMC
    /\ mcLast = NoMCCall
    /\ par = NoPar

NextMC ==
    \/ \E n \in SimCounts, ts \in TimeSteps, p \in Processes, a \in BOOLEAN,
         l \in BOOLEAN, s \in Seeds : MonteCarloEngineNew(n, ts, p, a, l, s)
    \/ \E a \in BOOLEAN : set_antithetic(a)
    \/ set_process
    \/ \E n \in SimCounts : set_num_simulation(n)
    \/ \E ts \in TimeSteps : set_time_steps(ts)
    \/ calculate_price
    \/ simulate_paths
    \/ simulate_paths_parallel
    \/ \E i \in 1..MaxTasks : WorkerClone(i)
    \/ \E i \in 1..MaxTasks : WorkerSimulate(i)
    \/ FinishPar

(***************************************************************************)
(* calculate_total_payoff_parallel, step by step: the seeds, the map over   *)
(* the workers and the f64 sum of the parallel iterator.                    *)
(***************************************************************************)
MaxSumTasks == 3

\* f64 with a three bit mantissa: the integers below 8, the even numbers
\* below 16, the multiples of 4 below 32
Granule(x) == IF x < 8 THEN 1 ELSE IF x < 16 THEN 2 ELSE 4

\* Round to nearest, ties to the even mantissa
RoundF(x) ==
    LET g  == Granule(x)
        lo == (x \div g) * g
    IN  IF 2 * (x - lo) < g THEN lo
        ELSE IF 2 * (x - lo) > g THEN lo + g
        ELSE IF (lo \div g) % 2 = 0 THEN lo ELSE lo + g

\* f64 addition
FAdd(a, b) == RoundF(a + b)

\* The path payoffs a worker can contribute
PathPayoffs == {1, 8}

\* The seeds a master generator can hand to the workers
DerivedSeeds ==
    {next_u64([seed |-> m, draws |-> d]) :
        m \in (Seeds \ {0}) \cup OsEntropy, d \in 0..(MaxSumTasks - 1)}

NoTot ==
    [exists |-> FALSE, seed |-> 0, payoff_of |-> [s \in DerivedSeeds |-> 0],
     calls |-> 0, running |-> FALSE, seeds |-> << >>, pieces |-> << >>,
     contrib |-> {}, total |-> 0, first |-> [contrib |-> {}, total |-> 0]]

\* The engine with its seed; with the process, the payoff and the market
\* parameters of the calls fixed, the payoff of a path is a function of the
\* seed its process clone was reseeded with
TotalEngineNew(seed, payoff_of) ==
    /\ ~tot.exists
    /\ tot' = [NoTot EXCEPT !.exists = TRUE, !.seed = seed, !.payoff_of = payoff_of]
    /\ UNCHANGED totRest

\* create_rng, then the seeds collected on the calling thread
total_payoff_parallel_start ==
    /\ tot.exists /\ ~tot.running /\ tot.calls < 2
    /\ \E entropy \in EntropyFor(tot) :
         tot' = [tot EXCEPT
                   !.running = TRUE,
                   !.seeds = PreGenerate(create_rng(tot, entropy), MaxSumTasks),
                   !.pieces = [i \in 1..MaxSumTasks |->
                                 [lo |-> i, hi |-> i, val |-> 0, done |-> FALSE]],
                   !.contrib = {}]
    /\ UNCHANGED totRest

\* The closure of map on one seed: clone, reseed, simulate, payoff
MapWorker(k) ==
    /\ tot.running
    /\ k \in DOMAIN tot.pieces
    /\ ~tot.pieces[k].done
    /\ LET i == tot.pieces[k].lo
       IN  tot' = [tot EXCEPT
                     !.pieces[k].val = tot.payoff_of[tot.seeds[i]],
                     !.pieces[k].done = TRUE,
                     !.contrib = @ \cup {<<tot.seeds[i], tot.payoff_of[tot.seeds[i]]>>}]
    /\ UNCHANGED totRest

\* sum(): two neighbouring partial sums are added as soon as both are there;
\* which neighbours meet first is up to the splitting and the work stealing
ReduceAdjacent(k) ==
    /\ tot.running
    /\ k \in DOMAIN tot.pieces /\ k + 1 \in DOMAIN tot.pieces
    /\ tot.pieces[k].done /\ tot.pieces[k + 1].done
    /\ tot' = [tot EXCEPT
                 !.pieces =
                    [j \in 1..(Len(tot.pieces) - 1) |->
                       IF j < k THEN tot.pieces[j]
                       ELSE IF j = k
                            THEN [lo |-> tot.pieces[k].lo, hi |-> tot.pieces[k + 1].hi,
                                  val |-> FAdd(tot.pieces[k].val, tot.pieces[k + 1].val),
                                  done |-> TRUE]
                       ELSE tot.pieces[j + 1]]]
    /\ UNCHANGED totRest

\* Ok(total_payoff)
TotalFinish ==
    /\ tot.running
    /\ Len(tot.pieces) = 1 /\ tot.pieces[1].done
    /\ tot' = [tot EXCEPT
                 !.running = FALSE, !.calls = @ + 1, !.pieces = << >>,
                 !.total = tot.pieces[1].val,
                 !.first = IF tot.calls = 0
                           THEN [contrib |-> tot.contrib, total |-> tot.pieces[1].val]
                           ELSE @]
    /\ UNCHANGED totRest

InitTotal == tot = NoTot

NextTotal ==
    \/ \E seed \in Seeds, f \in [DerivedSeeds -> PathPayoffs] : TotalEngineNew(seed, f)
    \/ total_payoff_parallel_start
    \/ \E k \in 1..MaxSumTasks : MapWorker(k)
    \/ \E k \in 1..MaxSumTasks : ReduceAdjacent(k)
    \/ TotalFinish

(***************************************************************************)
(* One engine instance shared by concurrent price calls: what a call reads *)
(* from &self and what it keeps in its own locals.                          *)
(***************************************************************************)
MaxCalls == 2

EngineVariants == {"analytic", "binomial", "pde", "mc"}

\* The registry as a set of (kind, calculator) pairs
RegistryOf(reg) == {<<k, reg[k]>> : k \in DOMAIN reg}

\* An engine of a variant as its constructor leaves it
SharedEngineOf(variant, seed) ==
    [variant |-> variant,
     size |-> CASE variant = "binomial" -> MinSteps
                [] variant = "pde" -> MinGrid
                [] variant = "mc" -> MinSimulations + 1
                [] OTHER -> 0,
     registry |-> IF variant = "analytic" THEN RegistryOf(AnalyticEngineNew) ELSE {},
     seed |-> IF variant = "mc" THEN seed ELSE 0,
     process_rng |-> IF variant = "mc" THEN ProcessRng ELSE NoRng]

NoPriceCall ==
    [pc |-> "idle", input |-> 0, calc |-> "NoCalculator", size |-> 0, master |-> NoRng,
     clone |-> NoRng, grid |-> <<0, 0>>, result |-> NoResult]

NoShared ==
    [exists |-> FALSE, engine |-> SharedEngineOf("analytic", 0),
     engine0 |-> SharedEngineOf("analytic", 0),
     calls |-> [c \in 1..MaxCalls |-> NoPriceCall]]

\* The parameters and the contract of the calls: a European vanilla call
SharedParams(input) == [spot |-> input, volatility |-> 20, time_to_maturity |-> 1]

\* A reseed that reaches the process of the engine through the clone
ReseedShared(engine_rng, seed) ==
    [engine |-> seed_from_u64(seed), clone |-> seed_from_u64(seed)]

\* process.init_rng_with_seed(seed) on the clone the call owns: the process
\* of the engine stays as it is
ReseedClone(engine_rng, seed) ==
    [engine |-> engine_rng, clone |-> seed_from_u64(seed)]

\* The value a price call returns when no other call runs
AloneResult(engine, input, master) ==
    CASE engine.variant = "analytic" ->
            AnalyticPrice(AnalyticEngineNew, SharedParams(input),
                          [type |-> "CallPayoff", kind |-> "VanillaCall"],
                          "EuropeanExercise")
      [] engine.variant = "binomial" -> Ok("binomial_price", input + engine.size)
      [] engine.variant = "pde" -> Ok("pde_price", input + engine.size)
      [] engine.variant = "mc" -> Ok("mc_price", next_u64(master))

SharedEngineNew(variant, seed) ==
    /\ ~sh.exists
    /\ sh' = [NoShared EXCEPT !.exists = TRUE,
                              !.engine = SharedEngineOf(variant, seed),
                              !.engine0 = SharedEngineOf(variant, seed)]
    /\ UNCHANGED shRest

\* The call reads its arguments and the configuration; Monte Carlo takes its
\* master generator from create_rng
price_begin(c, input) ==
    /\ sh.exists
    /\ sh.calls[c].pc \in {"idle", "returned"}
    /\ \E entropy \in EntropyFor(sh.engine) :
         sh' = [sh EXCEPT !.calls[c] =
                  [NoPriceCall EXCEPT
                     !.pc = "begun", !.input = input, !.size = sh.engine.size,
                     !.master = IF sh.engine.variant = "mc"
                                THEN create_rng(sh.engine, entropy) ELSE NoRng]]
    /\ UNCHANGED shRest

\* The locals of the call: the grid (vec![vec![0.0; ..]; ..]), the option
\* values, the clone of the process, the calculator looked up
price_allocate(c) ==
    /\ sh.exists
    /\ sh.calls[c].pc = "begun"
    /\ sh' = [sh EXCEPT
                !.calls[c].pc = "allocated",
                !.calls[c].grid = <<0, 0>>,
                !.calls[c].clone = sh.engine.process_rng,
                !.calls[c].calc =
                    IF \E e \in sh.engine.registry : e[1] = "VanillaCall"
                    THEN (CHOOSE e \in sh.engine.registry : e[1] = "VanillaCall")[2]
                    ELSE "NoCalculator"]
    /\ UNCHANGED shRest

\* The work of the call on its locals: the layers stepped back into the
\* grid, the clone reseeded and its path drawn
price_compute(c) ==
    LET call == sh.calls[c]
        r == ReseedClone(sh.engine.process_rng, next_u64(call.master))
    IN  /\ sh.exists
        /\ call.pc = "allocated"
        /\ sh' = [sh EXCEPT
                    !.engine.process_rng = r.engine,
                    !.calls[c].pc = "computed",
                    !.calls[c].grid =
                        IF sh.engine.variant \in {"binomial", "pde"}
                        THEN <<call.input + call.size, call.input>> ELSE call.grid,
                    !.calls[c].clone =
                        IF sh.engine.variant = "mc"
                        THEN [r.clone EXCEPT !.draws = 1] ELSE call.clone]
        /\ UNCHANGED shRest

price_return(c) ==
    LET call == sh.calls[c]
    IN  /\ sh.exists
        /\ call.pc = "computed"
        /\ sh' = [sh EXCEPT
                    !.calls[c].pc = "returned",
                    !.calls[c].result =
                        CASE sh.engine.variant = "analytic" ->
                                IF call.calc = "NoCalculator" THEN Err("NotImplemented")
                                ELSE calculate(call.calc, SharedParams(call.input),
                                               [type |-> "CallPayoff",
                                                kind |-> "VanillaCall"])
                          [] sh.engine.variant = "binomial" ->
                                Ok("binomial_price", call.grid[1])
                          [] sh.engine.variant = "pde" -> Ok("pde_price", call.grid[1])
                          [] sh.engine.variant = "mc" -> Ok("mc_price", call.clone.seed)]
        /\ UNCHANGED shRest

InitShared == sh = NoShared

NextShared ==
    \/ \E variant \in EngineVariants, seed \in Seeds : SharedEngineNew(variant, seed)
    \/ \E c \in 1..MaxCalls, input \in Spots : price_begin(c, input)
    \/ \E c \in 1..MaxCalls : price_allocate(c)
    \/ \E c \in 1..MaxCalls : price_compute(c)
    \/ \E c \in 1..MaxCalls : price_return(c)

(***************************************************************************)
(* The price of each engine as a value.  A price is a fraction num / den;  *)
(* a price the model does not follow digit by digit carries the name of    *)
(* the scheme and no number.                                               *)
(***************************************************************************)
PxOk(formula, num, den) ==
    [tag |-> "Ok", err |-> "", formula |-> formula, num |-> num, den |-> den]
PxErr(e) == [tag |-> "Err", err |-> e, formula |-> "", num |-> 0, den |-> 1]
PxPanic(msg) == [tag |-> "Panic", err |-> msg, formula |-> "", num |-> 0, den |-> 1]
PxNaN == [tag |-> "Ok", err |-> "", formula |-> "NaN", num |-> 0, den |-> 1]
NoPx == [tag |-> "None", err |-> "", formula |-> "", num |-> 0, den |-> 1]

\* A Result of the analytic model as a fraction
FromResult(r) ==
    IF r.tag = "Ok" THEN PxOk(r.formula, r.num, 1)
    ELSE [tag |-> r.tag, err |-> r.err, formula |-> "", num |-> 0, den |-> 1]

\* Payoff::payoff at the spot sNum / sDen, as a numerator over sDen
PayoffScaled(payoff, sNum, sDen) ==
    CASE payoff.type = "CallPayoff" -> Max(sNum - Strike * sDen, 0)
      [] payoff.type = "PutPayoff" -> Max(Strike * sDen - sNum, 0)
      [] payoff.type = "CashOrNothingCallPayoff" ->
            IF sNum >= Strike * sDen THEN Payout * sDen ELSE 0
      [] OTHER -> 0

\* Whether Payoff::payoff panics (todo!())
PayoffPanics(payoff) == PayoffAt(payoff, Strike).tag = "Panic"

\* The spots the engines are priced at: at the strike and above it
PriceSpots == {100, 110}

(***************************************************************************)
(* Exercise rules as decisions (traits/exercise.rs).  Time is counted in   *)
(* ticks of half a billionth of a year.                                    *)
(***************************************************************************)
ExerciseEps == 2
YearTicks == ExerciseEps * 1000000000

\* A rule that also exercises when the two values are equal
should_exercise_at_equal(rule, time, spot, intrinsic_value, continuation_value) ==
    IF rule = "EuropeanExercise" THEN time < ExerciseEps
    ELSE intrinsic_value >= continuation_value

\* ExerciseRule::should_exercise
should_exercise(rule, time, spot, intrinsic_value, continuation_value) ==
    IF rule = "EuropeanExercise" THEN time < ExerciseEps
    ELSE intrinsic_value > continuation_value

(***************************************************************************)
(* BinomialEngine::price (core/binomial.rs).  The lattice doubles or       *)
(* halves the spot at each step (u = 2, d = 1/2) and does not discount     *)
(* (r = 0); carry is the growth exp((r - q) dt) of one step, in quarters.  *)
(***************************************************************************)
LatticeSteps == 2

RECURSIVE Pow(_, _)
Pow(b, e) == IF e = 0 THEN 1 ELSE b * Pow(b, e - 1)

\* The market parameters of a lattice price: volatility 0 makes u = d = 1
LatticeParams ==
    [spot : PriceSpots, time_to_maturity : {0, 1}, volatility : {0, 1},
     carry : {1, 4, 16}]

\* p = (exp(a) - d) / (u - d) in sixths, for u = 2
ProbUpSixths(params) == params.carry - 2

\* The spot of node i of layer j, times 2^LatticeSteps:
\* s * u.powi(2 * i - j)
NodeSpot(params, i, j) == params.spot * Pow(2, LatticeSteps + 2 * i - j)

\* payoff(s_current) at node i of layer j, on the scale of that layer
Intrinsic(params, payoff, i, j) ==
    PayoffScaled(payoff, NodeSpot(params, i, j), Pow(2, LatticeSteps))
        * Pow(6, LatticeSteps - j)

\* The terminal layer: option_values[i] = payoff(s * d^N * u^(2 i))
TerminalLayer(params, payoff) ==
    [i \in 0..LatticeSteps |-> Intrinsic(params, payoff, i, LatticeSteps)]

\* One layer of the backward induction
InductLayer(values, j, params, payoff, rule) ==
    [i \in 0..j |->
        LET continuation_value ==
                ProbUpSixths(params) * values[i + 1]
                    + (6 - ProbUpSixths(params)) * values[i]
            intrinsic_value == Intrinsic(params, payoff, i, j)
            remaining_time ==
                ((params.time_to_maturity * YearTicks) \div LatticeSteps)
                    * (LatticeSteps - j)
        IN  IF should_exercise(rule, remaining_time, NodeSpot(params, i, j),
                               intrinsic_value, continuation_value)
            THEN intrinsic_value ELSE continuation_value]

RECURSIVE Induct(_, _, _, _, _)
Induct(values, j, params, payoff, rule) ==
    IF j < 0 THEN values
    ELSE Induct(InductLayer(values, j, params, payoff, rule), j - 1, params,
                payoff, rule)

\* BinomialEngine::price
BinomialPrice(params, payoff, rule) ==
    IF params.time_to_maturity <= 0 THEN FromResult(PayoffAt(payoff, params.spot))
    ELSE IF PayoffPanics(payoff) THEN PxPanic("todo")
    ELSE IF params.volatility = 0 THEN PxNaN
    ELSE PxOk("binomial_price",
              Induct(TerminalLayer(params, payoff), LatticeSteps - 1, params,
                     payoff, rule)[0],
              Pow(2, LatticeSteps) * Pow(6, LatticeSteps))

(***************************************************************************)
(* PDEEngine::calculate_price (core/pde/engine.rs), with the call boundary *)
(* condition of products/european_call.rs.  Volatility is in percent.      *)
(***************************************************************************)
FiniteDifferenceMethod == {"Explicit", "Implicit", "CrankNicolson"}

GridSizes == {50, 100, 200}

\* The engines PDEEngine::new accepts, with a square grid
PDEPriceEngines ==
    {e \in [method : FiniteDifferenceMethod, use_log_space : BOOLEAN,
            x_steps : GridSizes, t_steps : GridSizes] :
        /\ e.x_steps = e.t_steps
        /\ ~PDENewRejects(e.x_steps, e.t_steps, e.use_log_space)}

PDEParams ==
    [spot : PriceSpots, time_to_maturity : {0, 1}, volatility : {2, 20},
     carry : {4}]

\* stability_factor > 0.5 on the raw grid: dx = 1.9 s0 / x_steps,
\* so sigma^2 (2 s0)^2 dt / dx^2 > 1/2 is 8 sigma^2 T x^2 > 3.61 t
RawUnstable(engine, params) ==
    8 * params.volatility * params.volatility * params.time_to_maturity
        * engine.x_steps * engine.x_steps > 36100 * engine.t_steps

\* stability_factor > 0.5 on the log grid: dx = ln(20) / x_steps, and
\* ln(20)^2 = 8.9744 to four places
LogUnstable(engine, params) ==
    2 * params.volatility * params.volatility * params.time_to_maturity
        * engine.x_steps * engine.x_steps > 89744 * engine.t_steps

\* A check that looks at the raw grid only
StabilityRejectsRawOnly(engine, params) ==
    /\ engine.method = "Explicit"
    /\ ~engine.use_log_space
    /\ RawUnstable(engine, params)

\* The stability check of calculate_price
StabilityRejects(engine, params) ==
    /\ engine.method = "Explicit"
    /\ IF engine.use_log_space THEN LogUnstable(engine, params)
       ELSE RawUnstable(engine, params)

\* The lengths of the arrays a, b, c, rhs a scheme hands to ThomasSolver
\* for a row of n nodes (none for the explicit scheme)
SolverLengths(method, n) ==
    CASE method = "Implicit" -> <<n - 1, n, n - 1, n>>
      [] method = "CrankNicolson" -> <<n, n, n, n>>
      [] OTHER -> <<>>

\* The length check of ThomasSolver
LengthMismatch(a_len, b_len, c_len, d_len) ==
    a_len # d_len - 1 \/ b_len # d_len \/ c_len # d_len - 1

\* Whether step_back fails in the solver, whatever the numbers
StepBackFails(engine) ==
    LET l == SolverLengths(engine.method, engine.x_steps + 1)
    IN  l # <<>> /\ LengthMismatch(l[1], l[2], l[3], l[4])

\* The node below the spot: i_floor = floor((s0 - s_min) / dx) = floor(9 x / 19)
SpotNode(engine) == (9 * engine.x_steps) \div 19

\* weight = i_float - i_floor, in nineteenths
SpotWeight(engine) == (9 * engine.x_steps) % 19

\* Node i of the raw grid, s_min + i dx, times 10 x_steps
GridNode(engine, params, i) == params.spot * (engine.x_steps + 19 * i)

\* grid[0][i] at an interior node after the layers were stepped with
\* dt = 0, times 10 x_steps.  The explicit scheme takes the intrinsic value
\* at s_min + i * dt = s_min; the implicit scheme at the node.
ZeroMaturityNode(engine, params, payoff, rule, i) ==
    LET den == 10 * engine.x_steps
        terminal == PayoffScaled(payoff, GridNode(engine, params, i), den)
        intrinsic_value ==
            IF engine.method = "Explicit"
            THEN PayoffScaled(payoff, GridNode(engine, params, 0), den)
            ELSE terminal
    IN  IF should_exercise(rule, 0, 0, intrinsic_value, terminal)
        THEN intrinsic_value ELSE terminal

\* linear_interpolate(s_current, s_min, dx, &grid[0]).max(0.0) at dt = 0
ZeroMaturityInterpolate(engine, params, payoff, rule) ==
    LET i == SpotNode(engine)
        w == SpotWeight(engine)
    IN  PxOk("linear_interpolate",
             Max(ZeroMaturityNode(engine, params, payoff, rule, i) * (19 - w)
                   + ZeroMaturityNode(engine, params, payoff, rule, i + 1) * w, 0),
             190 * engine.x_steps)

\* The value calculate_price returns once every layer was stepped.  On the
\* log grid and at a positive maturity the number is not followed.
PDEInterpolate(engine, params, payoff, rule) ==
    IF params.time_to_maturity = 0 /\ ~engine.use_log_space
    THEN ZeroMaturityInterpolate(engine, params, payoff, rule)
    ELSE PxOk("pde_scheme", 0, 1)

(***************************************************************************)
(* MonteCarloEngine::calculate_price (core/monte_carlo.rs) with a          *)
(* geometric Brownian motion: at a zero horizon every path ends at s0.     *)
(***************************************************************************)
MCPriceEngines ==
    [num_simulations : {MinSimulations, MinSimulations + 1},
     use_antithetic : BOOLEAN, use_parallel : BOOLEAN, has_process : BOOLEAN]

MCParams == [spot : PriceSpots, time_to_maturity : {0}, volatility : {20}, carry : {4}]

\* The number of path payoffs added: iters, two per antithetic pair
PathsAdded(engine) ==
    IF engine.use_antithetic THEN 2 * (engine.num_simulations \div 2)
    ELSE engine.num_simulations

\* calculate_price at a zero horizon: total_payoff / num_simulations
MCZeroMaturityPrice(engine, params, payoff) ==
    IF ~engine.has_process THEN PxErr("NotSet")
    ELSE IF PayoffPanics(payoff) THEN PxPanic("todo")
    ELSE PxOk("avg_payoff",
              PathsAdded(engine) * PayoffAt(payoff, params.spot).num,
              engine.num_simulations)

(***************************************************************************)
(* One price call at a time, on an engine built for the call.              *)
(***************************************************************************)
NoPriceEngine ==
    [variant |-> "none", method |-> "none", use_log_space |-> FALSE,
     x_steps |-> 0, t_steps |-> 0, num_simulations |-> 0,
     use_antithetic |-> FALSE, use_parallel |-> FALSE, has_process |-> FALSE]

PDEEngineOf(e) ==
    [NoPriceEngine EXCEPT !.variant = "pde", !.method = e.method,
                          !.use_log_space = e.use_log_space,
                          !.x_steps = e.x_steps, !.t_steps = e.t_steps]

MCEngineOf(e) ==
    [NoPriceEngine EXCEPT !.variant = "mc", !.num_simulations = e.num_simulations,
                          !.use_antithetic = e.use_antithetic,
                          !.use_parallel =
                              ParallelAtNew(e.use_parallel, e.num_simulations),
                          !.has_process = e.has_process]

NoPxCall ==
    [engine |-> NoPriceEngine,
     params |-> [spot |-> 100, time_to_maturity |-> 0, volatility |-> 0, carry |-> 4],
     payoff |-> [type |-> "UserPayoff", kind |-> NoKind],
     rule |-> "EuropeanExercise", pc |-> "idle", allocated |-> FALSE,
     layers |-> 0, result |-> NoPx]

\* BinomialEngine::price
binomial_price(params, payoff, rule) ==
    /\ px.pc \in {"idle", "done"}
    /\ px' = [NoPxCall EXCEPT !.engine.variant = "binomial", !.params = params,
                              !.payoff = payoff, !.rule = rule, !.pc = "done",
                              !.result = BinomialPrice(params, payoff, rule)]
    /\ UNCHANGED pxRest

\* AnalyticEngine::price on the registry AnalyticEngine::new builds
analytic_price(params, payoff, rule) ==
    /\ px.pc \in {"idle", "done"}
    /\ px' = [NoPxCall EXCEPT !.engine.variant = "analytic", !.params = params,
                              !.payoff = payoff, !.rule = rule, !.pc = "done",
                              !.result =
                                  FromResult(AnalyticPrice(AnalyticEngineNew, params,
                                                           payoff, rule))]
    /\ UNCHANGED pxRest

\* MonteCarloEngine::calculate_price
mc_calculate_price(e, params, payoff, rule) ==
    /\ px.pc \in {"idle", "done"}
    /\ px' = [NoPxCall EXCEPT !.engine = MCEngineOf(e), !.params = params,
                              !.payoff = payoff, !.rule = rule, !.pc = "done",
                              !.result =
                                  MCZeroMaturityPrice(MCEngineOf(e), params, payoff)]
    /\ UNCHANGED pxRest

\* PDEEngine::calculate_price up to the terminal layer: the stability
\* check, the grid, the payoff at every node
pde_calculate_price(e, params, payoff, rule) ==
    /\ px.pc \in {"idle", "done"}
    /\ px' =
          LET call == [NoPxCall EXCEPT !.engine = PDEEngineOf(e), !.params = params,
                                       !.payoff = payoff, !.rule = rule]
          IN  IF StabilityRejects(PDEEngineOf(e), params)
              THEN [call EXCEPT !.pc = "done", !.result = PxErr("Other")]
              ELSE IF PayoffPanics(payoff)
              THEN [call EXCEPT !.pc = "done", !.allocated = TRUE,
                                !.result = PxPanic("todo")]
              ELSE [call EXCEPT !.pc = "grid", !.allocated = TRUE]
    /\ UNCHANGED pxRest

\* The loop over the layers: the boundary values, then step_back
pde_step_back ==
    /\ px.pc = "grid"
    /\ px' = IF StepBackFails(px.engine)
             THEN [px EXCEPT !.pc = "done", !.layers = 1,
                             !.result = PxErr("InvalidParameter")]
             ELSE [px EXCEPT !.pc = "stepped", !.layers = px.engine.t_steps]
    /\ UNCHANGED pxRest

\* The interpolation at the spot
pde_interpolate ==
    /\ px.pc = "stepped"
    /\ px' = [px EXCEPT !.pc = "done",
                        !.result = PDEInterpolate(px.engine, px.params, px.payoff,
                                                  px.rule)]
    /\ UNCHANGED pxRest

InitPricing == px = NoPxCall

NextPricing ==
    \/ \E params \in LatticeParams, payoff \in BuiltinPayoffs, rule \in ExerciseRules :
          binomial_price(params, payoff, rule)
    \/ \E params \in MCParams, payoff \in BuiltinPayoffs, rule \in ExerciseRules :
          analytic_price(params, payoff, rule)
    \/ \E e \in MCPriceEngines, params \in MCParams, payoff \in BuiltinPayoffs,
          rule \in ExerciseRules :
          mc_calculate_price(e, params, payoff, rule)
    \/ \E e \in PDEPriceEngines, params \in PDEParams, payoff \in BuiltinPayoffs,
          rule \in ExerciseRules :
          pde_calculate_price(e, params, payoff, rule)
    \/ pde_step_back
    \/ pde_interpolate

\* The intrinsic value of the call in hand, as a fraction
IntrinsicOfCall == FromResult(PayoffAt(px.payoff, px.params.spot))

\* C13: at time_to_maturity = 0 every engine returns exactly payoff(spot),
\* for every payoff, without an error and without a panic.
C13_ZeroMaturityIntrinsic ==
    (/\ px.pc = "done"
     /\ px.params.time_to_maturity = 0
     /\ ~PayoffPanics(px.payoff)
     /\ px.engine.variant = "analytic" => is_european(px.rule)
     /\ px.engine.variant = "mc" => px.engine.has_process
     /\ px.result.formula # "pde_scheme")
        => /\ px.result.tag = "Ok"
           /\ px.result.formula # "NaN"
           /\ px.result.num = IntrinsicOfCall.num * px.result.den

\* The price of the call in hand under European exercise, everything else
\* the same, where the model follows the number
EuropeanOfCall ==
    IF px.engine.variant = "binomial"
    THEN BinomialPrice(px.params, px.payoff, "EuropeanExercise")
    ELSE PDEInterpolate(px.engine, px.params, px.payoff, "EuropeanExercise")

\* C14: for the same market parameters, payoff and engine configuration the
\* price under American exercise is greater than or equal to the price under
\* European exercise (binomial engine, PDE schemes).
C14_AmericanAtLeastEuropean ==
    (/\ px.pc = "done"
     /\ px.engine.variant \in {"binomial", "pde"}
     /\ px.rule = "AmericanExercise"
     /\ px.result.tag = "Ok"
     /\ px.result.formula # "pde_scheme")
        => /\ px.result.formula # "NaN"
           /\ EuropeanOfCall.formula # "NaN"
           /\ EuropeanOfCall.den = px.result.den
           /\ px.result.num >= EuropeanOfCall.num

\* The stability ratio of the engine of the call in hand exceeds 0.5
RatioExceedsHalf ==
    IF px.engine.use_log_space THEN LogUnstable(px.engine, px.params)
    ELSE RawUnstable(px.engine, px.params)

\* C16: when the stability ratio of the explicit scheme exceeds 0.5 the
\* price call fails before the grid exists and before any layer is
\* stepped, on the raw and on the log grid alike; an engine with the
\* implicit or the Crank-Nicolson scheme is never rejected by this check.
C16_StabilityFailFast ==
    /\ (px.engine.variant = "pde" /\ px.engine.method = "Explicit" /\ RatioExceedsHalf)
          => /\ px.pc = "done"
             /\ px.result = PxErr("Other")
             /\ ~px.allocated
             /\ px.layers = 0
    /\ (px.engine.variant = "pde" /\ px.engine.method # "Explicit")
          => /\ px.allocated
             /\ px.result # PxErr("Other")

C16_Witness ==
    /\ px.engine.variant = "pde"
    /\ px.engine.method = "Explicit"
    /\ px.engine.use_log_space
    /\ RatioExceedsHalf
    /\ px.pc = "done"
    /\ px.result = PxErr("Other")

\* The call in hand prices the European vanilla call of the consistency
\* tests (S = K = 100, sigma = 0.2, T = 1) on a grid of at least 200 x 200
ConsistencyCall ==
    /\ px.engine.variant = "pde"
    /\ px.engine.x_steps >= 200
    /\ px.engine.t_steps >= 200
    /\ px.params.spot = Strike
    /\ px.params.volatility = 20
    /\ px.params.time_to_maturity = 1
    /\ px.payoff.type = "CallPayoff"
    /\ px.rule = "EuropeanExercise"

\* C20: for S = 100, K = 100, r = 0.05, sigma = 0.2, q = 0, T = 1 and a
\* European vanilla call, each of the three PDE schemes on a grid of at least
\* 200 x 200 returns a price, not an error (the price being within 0.1 of
\* the analytic 10.4506).
C20_PDEConvergence ==
    (ConsistencyCall /\ px.pc = "done") => px.result.tag = "Ok"

(***************************************************************************)
(* ThomasSolver (utils/linear_algebra.rs), one statement group at a time.  *)
(* The entries of a, b, c are counted in units of half the pivot           *)
(* threshold, so that a pivot can be non-zero and below it.  Quotients are *)
(* fractions <<numerator, denominator>>; rows are numbered from 1.         *)
(***************************************************************************)
MaxRows == 3
PivotEps == 2

Abs(x) == IF x < 0 THEN -x ELSE x

\* denominator.abs() < 1e-12, for a pivot p = <<numerator, denominator>>
BelowEps(p) == Abs(p[1]) < PivotEps * Abs(p[2])

Entries == {0, 1, 3}

Fill(len, v) == [k \in 1..len |-> v]

\* Arguments of matching lengths with every choice of entries, and
\* arguments of each other combination of lengths
ThomasInputs ==
    UNION {[a : [1..(n - 1) -> Entries], b : [1..n -> Entries],
            c : [1..(n - 1) -> Entries], d : {[k \in 1..n |-> k]}] : n \in 1..MaxRows}
    \cup {[a |-> Fill(la, 3), b |-> Fill(lb, 3), c |-> Fill(lc, 3), d |-> Fill(ld, 1)] :
            la \in 0..2, lb \in 0..2, lc \in 0..2, ld \in 0..2}

NoVec == <<>>

ThOk(x) == [tag |-> "Ok", err |-> "", x |-> x]
ThErr(e) == [tag |-> "Err", err |-> e, x |-> NoVec]
NoThResult == [tag |-> "None", err |-> "", x |-> NoVec]

NoThomas ==
    [pc |-> "idle", a |-> <<>>, b |-> <<>>, c |-> <<>>, d |-> <<>>, i |-> 0,
     pivot |-> <<0, 1>>, pivots |-> <<>>, divided |-> <<>>,
     c_prime |-> <<>>, d_prime |-> <<>>, result |-> NoThResult]

\* The pivot of row i: b[0], or b[i] - a[i-1] * c_prime[i-1]
Denominator(call, i) ==
    IF i = 1 THEN <<call.b[1], 1>>
    ELSE <<call.b[i] * call.c_prime[i - 1][2] - call.a[i - 1] * call.c_prime[i - 1][1],
           call.c_prime[i - 1][2]>>

\* c[i] / denominator, 0.0 in the last row
CPrime(call, i) ==
    IF i < Len(call.d) THEN <<call.c[i] * call.pivot[2], call.pivot[1]>>
    ELSE <<0, 1>>

\* d[0] / b[0], or (d[i] - a[i-1] * d_prime[i-1]) / denominator
DPrime(call, i) ==
    IF i = 1 THEN <<call.d[1] * call.pivot[2], call.pivot[1]>>
    ELSE <<(call.d[i] * call.d_prime[i - 1][2]
              - call.a[i - 1] * call.d_prime[i - 1][1]) * call.pivot[2],
           call.d_prime[i - 1][2] * call.pivot[1]>>

\* The back substitution x[i] = d_prime[i] - c_prime[i] * x[i+1]
RECURSIVE BackSubstitute(_, _, _)
BackSubstitute(call, i, x) ==
    IF i = 0 THEN x
    ELSE LET next == x[i + 1]
             xi == <<call.d_prime[i][1] * call.c_prime[i][2] * next[2]
                       - call.c_prime[i][1] * next[1] * call.d_prime[i][2],
                     call.d_prime[i][2] * call.c_prime[i][2] * next[2]>>
         IN  BackSubstitute(call, i - 1, [x EXCEPT ![i] = xi])

\* ThomasSolver entered: the empty right-hand side, then the length check
ThomasSolver(input) ==
    /\ th.pc = "idle"
    /\ th' =
          LET call == [NoThomas EXCEPT !.a = input.a, !.b = input.b, !.c = input.c,
                                       !.d = input.d]
          IN  IF Len(input.d) = 0
              THEN [call EXCEPT !.pc = "done", !.result = ThOk(<<>>)]
              ELSE IF LengthMismatch(Len(input.a), Len(input.b), Len(input.c),
                                     Len(input.d))
              THEN [call EXCEPT !.pc = "done", !.result = ThErr("InvalidParameter")]
              ELSE [call EXCEPT !.pc = "check", !.i = 1]
    /\ UNCHANGED thRest

\* The pivot of the row in hand is computed and compared with the threshold
thomas_check_pivot ==
    /\ th.pc = "check"
    /\ th' =
          LET p == Denominator(th, th.i)
              seen == [th EXCEPT !.pivot = p, !.pivots = Append(th.pivots, p)]
          IN  IF BelowEps(p)
              THEN [seen EXCEPT !.pc = "done", !.result = ThErr("CalculationError")]
              ELSE [seen EXCEPT !.pc = "divide"]
    /\ UNCHANGED thRest

\* The divisions by the pivot of the row in hand
thomas_divide ==
    /\ th.pc = "divide"
    /\ th' =
          LET n == Len(th.d)
              row == [th EXCEPT !.divided = Append(th.divided, th.pivot),
                                !.d_prime = Append(th.d_prime, DPrime(th, th.i))]
          IN  IF n = 1
              THEN [row EXCEPT !.pc = "done", !.result = ThOk(row.d_prime)]
              ELSE [row EXCEPT !.c_prime = Append(th.c_prime, CPrime(th, th.i)),
                               !.i = th.i + 1,
                               !.pc = IF th.i = n THEN "back" ELSE "check"]
    /\ UNCHANGED thRest

\* The back substitution and Ok(x)
thomas_back_substitute ==
    /\ th.pc = "back"
    /\ th' = [th EXCEPT !.pc = "done",
                        !.result = ThOk(BackSubstitute(th, Len(th.d) - 1, th.d_prime))]
    /\ UNCHANGED thRest

\* The caller takes the result
thomas_return ==
    /\ th.pc = "done"
    /\ th' = NoThomas
    /\ UNCHANGED thRest

InitThomas == th = NoThomas

NextThomas ==
    \/ \E input \in ThomasInputs : ThomasSolver(input)
    \/ thomas_check_pivot
    \/ thomas_divide
    \/ thomas_back_substitute
    \/ thomas_return

\* Whether the arrays of the call do not fit one system: b as long as d,
\* and, for a system with rows, a and c one shorter
ArgumentsMismatch ==
    \/ Len(th.b) # Len(th.d)
    \/ Len(th.d) > 0 /\ (Len(th.a) # Len(th.d) - 1 \/ Len(th.c) # Len(th.d) - 1)

\* C15: ThomasSolver fails CalculationError whenever a pivot is below the
\* threshold, the check comes before every division by that pivot, a
\* result vector has no entry with a zero denominator, and arguments of
\* mismatched lengths fail InvalidParameter.
C15_ThomasSolver ==
    /\ \A k \in 1..Len(th.divided) : ~BelowEps(th.divided[k])
    /\ (th.pc = "done" /\ \E k \in 1..Len(th.pivots) : BelowEps(th.pivots[k]))
          => th.result = ThErr("CalculationError")
    /\ (th.pc = "done" /\ th.result.tag = "Ok")
          => \A k \in 1..Len(th.result.x) : th.result.x[k][2] # 0
    /\ (th.pc = "done" /\ ArgumentsMismatch)
          => th.result = ThErr("InvalidParameter")

(***************************************************************************)
(* black_scholes_call_implied_vol (black_scholes/mod.rs), one loop         *)
(* iteration at a time.  The inputs enter through what they decide: whether *)
(* the price violates the arbitrage bound, and after how many doublings of *)
(* the upper bracket european_call(upper) - CallPrice stops being          *)
(* negative (never, for a price no volatility reaches).  The bracket is    *)
(* upper = 2^doublings and upper - lower = upper / 2^halvings.             *)
(***************************************************************************)
MaxDoublings == 10
MaxUpper == 100
MaxIter == 1000
TolInverse == 1000000

Never == -1

IVInputs == [violates_bound : BOOLEAN, root : 0..MaxDoublings \cup {Never}]

IvOk == [tag |-> "Ok", err |-> ""]
IvErr(e) == [tag |-> "Err", err |-> e]
NoIvResult == [tag |-> "None", err |-> ""]

NoImpliedVol ==
    [pc |-> "idle", input |-> [violates_bound |-> FALSE, root |-> 0],
     doublings |-> 0, halvings |-> 0, iter |-> 0, result |-> NoIvResult]

\* fupper < 0.0 for the bracket in hand
FUpperNegative(call) == call.input.root = Never \/ call.doublings < call.input.root

\* A loop that never gives up
GivesUpNever(upper) == FALSE

\* upper > 100.0
GivesUp(upper) == upper > MaxUpper

\* (upper - lower) > tol
WidthAboveTol(call) == Pow(2, call.doublings) * TolInverse > Pow(2, call.halvings)

\* The arbitrage check and the first bracket
black_scholes_call_implied_vol(input) ==
    /\ iv.pc \in {"idle", "done"}
    /\ iv' = IF input.violates_bound
             THEN [NoImpliedVol EXCEPT !.pc = "done", !.input = input,
                                       !.result = IvErr("arbitrage bound")]
             ELSE [NoImpliedVol EXCEPT !.pc = "doubling", !.input = input]
    /\ UNCHANGED ivRest

\* One test of while fupper < 0.0, and its body
doubling_step ==
    /\ iv.pc = "doubling"
    /\ FUpperNegative(iv) => iv.doublings < MaxDoublings
    /\ iv' = IF ~FUpperNegative(iv) THEN [iv EXCEPT !.pc = "bisect"]
             ELSE IF GivesUp(Pow(2, iv.doublings + 1))
             THEN [iv EXCEPT !.pc = "done", !.doublings = iv.doublings + 1,
                             !.result = IvErr("upper bound")]
             ELSE [iv EXCEPT !.doublings = iv.doublings + 1]
    /\ UNCHANGED ivRest

\* One test of while (upper - lower) > tol && iter < max_iter, and its
\* body; after the loop, the check of iter and Ok(guess)
bisect_step ==
    /\ iv.pc = "bisect"
    /\ iv' = IF WidthAboveTol(iv) /\ iv.iter < MaxIter
             THEN [iv EXCEPT !.halvings = iv.halvings + 1, !.iter = iv.iter + 1]
             ELSE IF iv.iter > MaxIter
             THEN [iv EXCEPT !.pc = "done", !.result = IvErr("converge")]
             ELSE [iv EXCEPT !.pc = "done", !.result = IvOk]
    /\ UNCHANGED ivRest

InitImpliedVol == iv = NoImpliedVol

NextImpliedVol ==
    \/ \E input \in IVInputs : black_scholes_call_implied_vol(input)
    \/ doubling_step
    \/ bisect_step

\* C17: black_scholes_call_implied_vol terminates for every input: the
\* doubling loop gives up once the bracket exceeds 100, the bisection loop
\* makes at most 1000 iterations, and every call returns a volatility or a
\* failure.
C17_ImpliedVolTerminates ==
    /\ [](Pow(2, iv.doublings) <= 2 * MaxUpper /\ iv.iter <= MaxIter)
    /\ [](iv.pc = "done" => iv.result.tag \in {"Ok", "Err"})
    /\ (iv.pc \in {"doubling", "bisect"}) ~> (iv.pc = "done")

C17_Witness ==
    /\ iv.pc = "done"
    /\ iv.input.root = Never
    /\ ~iv.input.violates_bound
    /\ iv.result = IvErr("upper bound")

(***************************************************************************)
(* Calls on the exercise rules themselves (traits/exercise.rs).            *)
(***************************************************************************)
ExerciseTimes == {-1, 0, 1, ExerciseEps, ExerciseEps + 1, YearTicks}
ExerciseValues == {0, 5, 10}

NoExCall ==
    [op |-> "none", rule |-> "EuropeanExercise", time |-> 0, spot |-> 0,
     intrinsic_value |-> 0, continuation_value |-> 0, result |-> FALSE]

should_exercise_call(rule, time, spot, intrinsic_value, continuation_value) ==
    /\ ex' = [op |-> "should_exercise", rule |-> rule, time |-> time, spot |-> spot,
              intrinsic_value |-> intrinsic_value,
              continuation_value |-> continuation_value,
              result |-> should_exercise(rule, time, spot, intrinsic_value,
                                         continuation_value)]
    /\ UNCHANGED exRest

is_european_call(rule) ==
    /\ ex' = [NoExCall EXCEPT !.op = "is_european", !.rule = rule,
                              !.result = is_european(rule)]
    /\ UNCHANGED exRest

InitExercise == ex = NoExCall

NextExercise ==
    \/ \E rule \in ExerciseRules, time \in ExerciseTimes, spot \in PriceSpots,
          intrinsic_value \in ExerciseValues, continuation_value \in ExerciseValues :
          should_exercise_call(rule, time, spot, intrinsic_value, continuation_value)
    \/ \E rule \in ExerciseRules : is_european_call(rule)

\* C18: EuropeanExercise.should_exercise is true exactly when the remaining
\* time is below 1e-9, whatever the spot and the two values;
\* AmericanExercise.should_exercise is true exactly when the intrinsic value
\* is strictly greater than the continuation value, whatever the time;
\* is_european is true for the former and false for the latter.
C18_ExerciseRules ==
    /\ (ex.op = "should_exercise" /\ ex.rule = "EuropeanExercise")
          => (ex.result <=> ex.time < ExerciseEps)
    /\ (ex.op = "should_exercise" /\ ex.rule = "AmericanExercise")
          => (ex.result <=> ex.continuation_value < ex.intrinsic_value)
    /\ ex.op = "is_european" => (ex.result <=> ex.rule = "EuropeanExercise")

C18_Witness ==
    /\ ex.op = "should_exercise"
    /\ ex.rule = "AmericanExercise"
    /\ ex.intrinsic_value = ex.continuation_value
    /\ ex.intrinsic_value > 0
    /\ ex.time = 0
    /\ ~ex.result

(***************************************************************************)
(* calc_percentage (utils/math.rs) on a slice the caller owns.  The        *)
(* percentage is counted in tenths.                                        *)
(***************************************************************************)
MaxData == 3

DataValues == {1, 2, 3}

DataSlices == UNION {[1..n -> DataValues] : n \in 0..MaxData}

Percentages == {-1, 0, 5, 10, 11}

StOk(num) == [tag |-> "Ok", err |-> "", num |-> num]
StErr(e) == [tag |-> "Err", err |-> e, num |-> 0]
NoStResult == [tag |-> "None", err |-> "", num |-> 0]

NoStCall == [op |-> "none", pct |-> 0, before |-> <<>>, result |-> NoStResult]

\* data.sort_by(partial_cmp)
Sorted(data) == SortSeq(data, LAMBDA x, y : x < y)

\* The interpolated value at rank = pct * (n - 1), in tenths; rows are
\* numbered from 1
PercentileOf(sorted, pct) ==
    LET rank == pct * (Len(sorted) - 1)
        lower_rank == rank \div 10
        fraction == rank % 10
    IN  IF fraction = 0 THEN 10 * sorted[lower_rank + 1]
        ELSE sorted[lower_rank + 1] * (10 - fraction)
                + sorted[lower_rank + 2] * fraction

\* The caller fills the slice
SetData(data) ==
    /\ st' = [data |-> data, last |-> [NoStCall EXCEPT !.op = "set_data"]]
    /\ UNCHANGED stRest

calc_percentage(pct) ==
    /\ st' =
          LET call == [NoStCall EXCEPT !.op = "calc_percentage", !.pct = pct,
                                       !.before = st.data]
          IN  IF Len(st.data) = 0
              THEN [st EXCEPT !.last = [call EXCEPT !.result = StErr("InvalidParameter")]]
              ELSE IF pct < 0 \/ pct > 10
              THEN [st EXCEPT !.last = [call EXCEPT !.result = StErr("InvalidParameter")]]
              ELSE [data |-> Sorted(st.data),
                    last |-> [call EXCEPT
                                !.result = StOk(PercentileOf(Sorted(st.data), pct))]]
    /\ UNCHANGED stRest

InitPercentage == st = [data |-> <<>>, last |-> NoStCall]

NextPercentage ==
    \/ \E data \in DataSlices : SetData(data)
    \/ \E pct \in Percentages : calc_percentage(pct)

\* C19: calc_percentage given a zero-length input fails with EmptyData and
\* does not touch the data; a percentage outside [0, 1] fails
\* InvalidParameter.
C19_PercentageErrors ==
    /\ (st.last.op = "calc_percentage" /\ Len(st.last.before) = 0)
          => /\ st.last.result = StErr("EmptyData")
             /\ st.data = st.last.before
    /\ (st.last.op = "calc_percentage" /\ Len(st.last.before) > 0
          /\ (st.last.pct < 0 \/ st.last.pct > 10))
          => st.last.result = StErr("InvalidParameter")

(***************************************************************************)
(* linear_interpolate (utils/math.rs) and the clamp of the PDE price       *)
(* (core/pde/engine.rs:131).  Positions are integers; a value is a         *)
(* numerator over dx.  Nodes are numbered from 0 as in the source, stored  *)
(* from 1.                                                                 *)
(***************************************************************************)
MaxNodes == 3

NodeValues == {-2, 0, 3}

InterpolationGrids == UNION {[1..n -> NodeValues] : n \in 0..MaxNodes}

GridOrigins == {0, 3}

GridSpacings == {1, 2}

LiOk(num) == [tag |-> "Ok", err |-> "", num |-> num]
LiErr(e) == [tag |-> "Err", err |-> e, num |-> 0]
LiPanic == [tag |-> "Panic", err |-> "index out of bounds", num |-> 0]
NoLiResult == [tag |-> "None", err |-> "", num |-> 0]

NoLiCall ==
    [op |-> "none", x |-> 0, x_min |-> 0, dx |-> 1, grid |-> <<>>,
     result |-> NoLiResult]

\* i_float.floor() as usize: the cast of a negative float gives 0
FloorAsUsize(x, x_min, dx) == IF x < x_min THEN 0 ELSE (x - x_min) \div dx

\* A guard that lets the last node through
BeyondLast(i_floor, len) == i_floor > len - 1

\* i_floor >= grid.len() - 1
AtOrBeyondLast(i_floor, len) == i_floor >= len - 1

\* linear_interpolate
LinearInterpolate(x, x_min, dx, grid) ==
    LET i_floor == FloorAsUsize(x, x_min, dx)
        i_ceil == i_floor + 1
        weight == (x - x_min) - i_floor * dx
    IN  IF Len(grid) = 0 THEN LiErr("InvalidParameter")
        ELSE IF AtOrBeyondLast(i_floor, Len(grid)) THEN LiOk(grid[Len(grid)] * dx)
        ELSE IF x < x_min THEN LiOk(grid[1] * dx)
        ELSE IF i_ceil + 1 > Len(grid) THEN LiPanic
        ELSE LiOk(grid[i_floor + 1] * (dx - weight) + grid[i_ceil + 1] * weight)

\* A call of linear_interpolate
linear_interpolate(x, x_min, dx, grid) ==
    /\ li.op = "none"
    /\ li' = [op |-> "linear_interpolate", x |-> x, x_min |-> x_min, dx |-> dx,
              grid |-> grid, result |-> LinearInterpolate(x, x_min, dx, grid)]
    /\ UNCHANGED liRest

\* The last statement of PDEEngine::calculate_price:
\* linear_interpolate(s_current, s_min, dx, &grid[0])?.max(0.0)
price_from_layer(x, x_min, dx, grid) ==
    /\ li.op = "none"
    /\ li' = [op |-> "price", x |-> x, x_min |-> x_min, dx |-> dx, grid |-> grid,
              result |->
                  LET r == LinearInterpolate(x, x_min, dx, grid)
                  IN  IF r.tag = "Ok" THEN LiOk(Max(r.num, 0)) ELSE r]
    /\ UNCHANGED liRest

\* The caller takes the result
interpolate_return ==
    /\ li.op # "none"
    /\ li' = NoLiCall
    /\ UNCHANGED liRest

InitInterpolate == li = NoLiCall

NextInterpolate ==
    \/ \E x \in -1..(2 * MaxNodes + 4), x_min \in GridOrigins, dx \in GridSpacings,
          grid \in InterpolationGrids :
          linear_interpolate(x, x_min, dx, grid)
    \/ \E x \in -1..(2 * MaxNodes + 4), x_min \in GridOrigins, dx \in GridSpacings,
          grid \in InterpolationGrids :
          price_from_layer(x, x_min, dx, grid)
    \/ interpolate_return

\* The node at or left of x, numbered from 0, for x inside the grid
LeftNode == (li.x - li.x_min) \div li.dx

\* C21: on a non-empty grid linear_interpolate returns the first value left
\* of the grid, the last value at or right of the last node, the node value
\* on a node, and otherwise y_left + (y_right - y_left) * (x - x_left) / dx,
\* without indexing outside the grid; an empty grid fails InvalidParameter;
\* the PDE price built on it is never negative.
C21_LinearInterpolate ==
    /\ li.result.tag # "Panic"
    /\ (li.op # "none" /\ Len(li.grid) = 0) => li.result = LiErr("InvalidParameter")
    /\ (li.op = "linear_interpolate" /\ Len(li.grid) > 0)
          => /\ li.result.tag = "Ok"
             /\ li.x < li.x_min => li.result.num = li.grid[1] * li.dx
             /\ li.x >= li.x_min + (Len(li.grid) - 1) * li.dx
                   => li.result.num = li.grid[Len(li.grid)] * li.dx
             /\ (li.x >= li.x_min /\ li.x < li.x_min + (Len(li.grid) - 1) * li.dx)
                   => LET y_left == li.grid[LeftNode + 1]
                          y_right == li.grid[LeftNode + 2]
                          x_left == li.x_min + LeftNode * li.dx
                      IN  /\ li.result.num
                                = y_left * li.dx + (y_right - y_left) * (li.x - x_left)
                          /\ li.x = x_left => li.result.num = y_left * li.dx
    /\ (li.op = "price" /\ li.result.tag = "Ok") => li.result.num >= 0

C21_Witness ==
    /\ li.op = "linear_interpolate"
    /\ Len(li.grid) = 3
    /\ li.dx = 2
    /\ li.x = li.x_min + 3
    /\ li.grid[2] # li.grid[3]
    /\ li.result = LiOk(li.grid[2] + li.grid[3])

(***************************************************************************)
(* simulate_path of the two Brownian processes (simulation/brownian.rs).   *)
(* A path point is a record: "num" is the number v, "exp" is e^v as        *)
(* f64::exp returns it inside the range of the format, "zero" is the 0.0   *)
(* exp returns below that range and "inf" the infinity above it.  The      *)
(* horizon is a whole number of steps of a square length, so that dt and   *)
(* its root are integers; volatilities are even, so that half the          *)
(* variance is an integer.                                                 *)
(***************************************************************************)
MaxSteps == 2

\* f64::exp gives 0.0 for an argument below -745 and infinity above 709
MinExpArg == 0 - 745
MaxExpArg == 709

BrownianProcesses == {"SimpleBrownianMotion", "GeometricBrownianMotion"}

PathDrifts == {0 - 400, 0, 1}

PathVolatilities == {0, 2}

InitialPrices == {0 - 1, 0, 1}

StepTimes == {0, 1, 4}

Draws == {0 - 1, 0, 1}

TimeHorizons(steps) == {0 - 1} \cup {dt * steps : dt \in StepTimes}

Num(v) == [tag |-> "num", v |-> v]
ExpPoint(v) == [tag |-> "exp", v |-> v]
ZeroPoint == [tag |-> "zero", v |-> 0]
InfPoint == [tag |-> "inf", v |-> 0]

PaOk(path) == [tag |-> "Ok", err |-> "", path |-> path]
PaErr(e) == [tag |-> "Err", err |-> e, path |-> <<>>]
NoPaResult == [tag |-> "None", err |-> "", path |-> <<>>]

NoPaCall ==
    [op |-> "none", process |-> "", drift |-> 0, volatility |-> 0,
     initial_price |-> 0, time_horizon |-> 0, steps |-> 0, eps |-> <<>>,
     result |-> NoPaResult]

\* dt.sqrt() on the step lengths enumerated
Sqrt(dt) == IF dt = 4 THEN 2 ELSE dt

\* initial_price.ln() on the positive prices enumerated
Ln(initial_price) == CASE initial_price = 1 -> 0

\* An exponential that never leaves the range of the format
ExpUnbounded(x) == ExpPoint(x)

\* f64::exp
Exp(x) ==
    IF x < MinExpArg THEN ZeroPoint
    ELSE IF x > MaxExpArg THEN InfPoint
    ELSE ExpPoint(x)

\* the running sum of the increments up to step i
RECURSIVE Accumulate(_, _, _, _, _)
Accumulate(start, drift_term, diffusion_term, eps, i) ==
    IF i = 0 THEN start
    ELSE Accumulate(start, drift_term, diffusion_term, eps, i - 1)
             + drift_term + diffusion_term * eps[i]

\* SimpleBrownianMotion::simulate_path
SimplePath(drift, volatility, initial_price, time_horizon, steps, eps) ==
    IF steps = 0 \/ time_horizon < 0 THEN PaOk(<<Num(initial_price)>>)
    ELSE LET dt == time_horizon \div steps
             drift_term == drift * dt
             diffusion_term == volatility * Sqrt(dt)
         IN  PaOk(<<Num(initial_price)>>
                  \o [i \in 1..steps |->
                        Num(Accumulate(initial_price, drift_term, diffusion_term,
                                       eps, i))])

\* GeometricBrownianMotion::simulate_path
GeometricPath(drift, volatility, initial_price, time_horizon, steps, eps) ==
    IF initial_price <= 0 THEN PaErr("InvalidParameter")
    ELSE IF time_horizon < 0 THEN PaErr("InvalidParameter")
    ELSE IF steps = 0 THEN PaErr("InvalidParameter")
    ELSE LET dt == time_horizon \div steps
             drift_term == (drift - (volatility * volatility) \div 2) * dt
             diffusion_term == volatility * Sqrt(dt)
         IN  PaOk(<<Num(initial_price)>>
                  \o [i \in 1..steps |->
                        Exp(Accumulate(Ln(initial_price), drift_term,
                                       diffusion_term, eps, i))])

\* StochasticProcess::simulate_path; eps are the draws of the generator
simulate_path(process, drift, volatility, initial_price, time_horizon, steps, eps) ==
    /\ pa.op = "none"
    /\ pa' = [op |-> "simulate_path", process |-> process, drift |-> drift,
              volatility |-> volatility, initial_price |-> initial_price,
              time_horizon |-> time_horizon, steps |-> steps, eps |-> eps,
              result |-> IF process = "SimpleBrownianMotion"
                         THEN SimplePath(drift, volatility, initial_price,
                                         time_horizon, steps, eps)
                         ELSE GeometricPath(drift, volatility, initial_price,
                                            time_horizon, steps, eps)]
    /\ UNCHANGED paRest

\* the caller takes the path
path_return ==
    /\ pa.op # "none"
    /\ pa' = NoPaCall
    /\ UNCHANGED paRest

InitPath == pa = NoPaCall

NextPath ==
    \/ \E process \in BrownianProcesses, drift \in PathDrifts,
          volatility \in PathVolatilities, initial_price \in InitialPrices,
          steps \in 0..MaxSteps :
          \E time_horizon \in TimeHorizons(steps), eps \in [1..steps -> Draws] :
             simulate_path(process, drift, volatility, initial_price,
                           time_horizon, steps, eps)
    \/ path_return

StrictlyPositive(point) ==
    \/ point.tag \in {"exp", "inf"}
    \/ point.tag = "num" /\ point.v > 0

GeometricRejected ==
    \/ pa.initial_price <= 0
    \/ pa.time_horizon < 0
    \/ pa.steps = 0

ValidPathCall ==
    /\ pa.op = "simulate_path"
    /\ IF pa.process = "GeometricBrownianMotion" THEN ~GeometricRejected
       ELSE pa.time_horizon >= 0

\* the log price of a geometric path after step i
LogPrice(i) ==
    LET dt == pa.time_horizon \div pa.steps
    IN  Accumulate(Ln(pa.initial_price), (pa.drift - (pa.volatility * pa.volatility) \div 2) * dt,
                   pa.volatility * Sqrt(dt), pa.eps, i)

\* C22 as stated: simulate_path on valid inputs returns steps+1 points of
\* which the first is initial_price, for both processes; every point of a
\* geometric path is strictly positive; the geometric process rejects
\* initial_price <= 0, time_horizon < 0 and steps = 0 with InvalidParameter.
C22_AlwaysPositive ==
    /\ ValidPathCall => /\ pa.result.tag = "Ok"
                        /\ Len(pa.result.path) = pa.steps + 1
                        /\ pa.result.path[1] = Num(pa.initial_price)
    /\ (ValidPathCall /\ pa.process = "GeometricBrownianMotion")
          => \A i \in 1..Len(pa.result.path) : StrictlyPositive(pa.result.path[i])
    /\ (pa.op = "simulate_path" /\ pa.process = "GeometricBrownianMotion"
          /\ GeometricRejected)
          => pa.result = PaErr("InvalidParameter")

\* C22: simulate_path on valid inputs returns steps+1 points of which the
\* first is initial_price, for both processes; no point of a geometric path
\* is negative, and the point after step i is strictly positive exactly when
\* its log price is not below the least argument for which f64::exp is
\* non-zero (it is 0.0 otherwise); the geometric process rejects
\* initial_price <= 0, time_horizon < 0 and steps = 0 with InvalidParameter.
C22_SimulatePath ==
    /\ ValidPathCall => /\ pa.result.tag = "Ok"
                        /\ Len(pa.result.path) = pa.steps + 1
                        /\ pa.result.path[1] = Num(pa.initial_price)
    /\ (ValidPathCall /\ pa.process = "GeometricBrownianMotion")
          => /\ StrictlyPositive(pa.result.path[1])
             /\ \A i \in 1..pa.steps :
                   /\ StrictlyPositive(pa.result.path[i + 1])
                         <=> LogPrice(i) >= MinExpArg
                   /\ LogPrice(i) < MinExpArg => pa.result.path[i + 1] = ZeroPoint
    /\ (pa.op = "simulate_path" /\ pa.process = "GeometricBrownianMotion"
          /\ GeometricRejected)
          => pa.result = PaErr("InvalidParameter")

\* a two-step geometric path that stays positive, and one that reaches 0.0
C22_Witness ==
    /\ ValidPathCall
    /\ pa.process = "GeometricBrownianMotion"
    /\ pa.steps = 2
    /\ pa.result.path = <<Num(1), ExpPoint(0 - 404), ZeroPoint>>

(***************************************************************************)
(* One pass of the loop of PDEEngine::calculate_price (core/pde/engine.rs  *)
(* 109-129): the two boundary nodes of layer n, then step_back of the      *)
(* scheme (core/pde/methods).  Values are fractions <<numerator,           *)
(* denominator>> in lowest terms; node i of the source is entry i + 1.     *)
(* Rates, volatility, dt and dx are integers and the volatility is even,   *)
(* so every coefficient is a fraction.  A spot is a point as above: the    *)
(* position itself on the raw grid, e to the position on the log grid.     *)
(***************************************************************************)
MaxLayerNodes == 4

TimeLayers == 1

\* a spot of 10 puts the first node at 1 on the raw grid and at 0 on the
\* log grid; dt and dx are taken as whole numbers
LayerParams == [s0 : {10}, r : {0, 1}, q : {0}, sigma : {0, 2}]

LayerSteps == [dt : {1, 2}, dx : {1, 3}]

\* the cash-or-nothing call of traits/payoff.rs with a strike inside the grid
LayerPayoff == [type |-> "CashOrNothingCallPayoff", strike |-> 2, payout |-> 1]

BoundaryConditions ==
    [type : {"CallBoundaryCondition"}, strike : {2}, risk_free_rate : {0, 1}]
    \cup {[type |-> "DefaultBoundaryCondition", strike |-> 0, risk_free_rate |-> 0]}

\* the element of a one-element set: binds a value that is used repeatedly
Only(S) == CHOOSE x \in S : TRUE

RECURSIVE GCD(_, _)
GCD(x, y) == IF y = 0 THEN x ELSE GCD(y, x % y)

\* a fraction in lowest terms with a positive denominator
Lowest(p) ==
    LET g == GCD(Abs(p[1]), Abs(p[2]))
    IN  <<(IF p[2] < 0 THEN 0 - p[1] ELSE p[1]) \div g, Abs(p[2]) \div g>>

Frac(num, den) == Only({Lowest(p) : p \in {<<num, den>>}})

Whole(k) == <<k, 1>>

Sum(x, y) ==
    LET g == GCD(x[2], y[2])
    IN  Frac(x[1] * (y[2] \div g) + y[1] * (x[2] \div g), (x[2] \div g) * y[2])

Product(x, y) ==
    LET g == GCD(Abs(x[1]), y[2])
        h == GCD(Abs(y[1]), x[2])
    IN  Frac((x[1] \div g) * (y[1] \div h), (x[2] \div h) * (y[2] \div g))

Inverse(y) == IF y[1] < 0 THEN <<0 - y[2], 0 - y[1]>> ELSE <<y[2], y[1]>>

QAdd(x, y) == Only({Sum(p[1], p[2]) : p \in {<<x, y>>}})
QSub(x, y) == Only({Sum(p[1], <<0 - p[2][1], p[2][2]>>) : p \in {<<x, y>>}})
QMul(x, y) == Only({Product(p[1], p[2]) : p \in {<<x, y>>}})
QDiv(x, y) == Only({Product(p[1], Inverse(p[2])) : p \in {<<x, y>>}})

\* e^(-x) in percent to the nearest unit
DiscountPercent(x) ==
    CASE x = 0 -> 100 [] x = 1 -> 37 [] x = 2 -> 14 [] x = 3 -> 5 [] x = 4 -> 2
      [] OTHER -> 0

BcOk(value) == [tag |-> "Ok", err |-> "", value |-> value]
BcErr(e) == [tag |-> "Err", err |-> e, value |-> <<0, 1>>]

\* BoundaryCondition::lower_boundary
lower_boundary(bc, t) ==
    IF bc.type = "CallBoundaryCondition" THEN BcOk(<<0, 1>>)
    ELSE BcErr("NotImplemented")

\* BoundaryCondition::upper_boundary
upper_boundary(bc, t) ==
    IF bc.type = "CallBoundaryCondition"
    THEN BcOk(Frac(200 * bc.strike - bc.strike * DiscountPercent(bc.risk_free_rate * t),
                   100))
    ELSE BcErr("NotImplemented")

\* to_price of the space position
ToPrice(use_log_space, s_space) ==
    IF use_log_space THEN Exp(s_space) ELSE Num(s_space)

\* the least integer x with e^x >= strike, for the strike of LayerPayoff
CeilLn(strike) == CASE strike = 2 -> 1

\* Payoff::payoff of the cash-or-nothing call at a point
PayoffAtPoint(payoff, point) ==
    LET reached == IF point.tag = "num" THEN point.v >= payoff.strike
                   ELSE point.v >= CeilLn(payoff.strike)
    IN  IF reached THEN <<payoff.payout, 1>> ELSE <<0, 1>>

\* the remaining time in the unit of should_exercise; a year or more is
\* far above its threshold
TimeTicks(remaining_time) == Min(remaining_time, 1) * YearTicks

\* the node value after the exercise test, and the record of the test; the
\* two values are compared over their common denominator
Exercised(rule, remaining_time, s, value) ==
    LET intrinsic_value == PayoffAtPoint(LayerPayoff, s)
        exercise == should_exercise(rule, TimeTicks(remaining_time), s,
                                    intrinsic_value[1] * value[2],
                                    value[1] * intrinsic_value[2])
    IN  [value |-> IF exercise THEN intrinsic_value ELSE value,
         call |-> [time |-> remaining_time, spot |-> s,
                   intrinsic_value |-> intrinsic_value,
                   continuation_value |-> value]]

\* the drift coefficient of the log grid as each scheme writes it
LogDrift(method, params) ==
    CASE method = "Explicit" -> params.r - params.q + (params.sigma * params.sigma) \div 2
      [] method = "Implicit" -> params.r - params.q - (params.sigma * params.sigma) \div 2
      [] method = "CrankNicolson" ->
            params.r - params.q + (params.sigma * params.sigma) \div 2

\* the diffusion coefficient of the log grid, 0.5*sigma^2 in the three schemes
LogDiffusion(params) == (params.sigma * params.sigma) \div 2

NoSystem == [a |-> <<>>, b |-> <<>>, c |-> <<>>, d |-> <<>>]

StepOk(layer, calls, system) ==
    [tag |-> "Ok", err |-> "", layer |-> layer, calls |-> calls, system |-> system]
StepErr(e, layer, system) ==
    [tag |-> "Err", err |-> e, layer |-> layer, calls |-> <<>>, system |-> system]

\* ExplicitMethod::step_back: layer is grid[time_idx], next is grid[time_idx+1]
ExplicitStep(layer, next, s_min, dx, dt, params, rule, remain_time, use_log_space) ==
    LET n == Len(layer)
        value(i) ==
            LET s_space == s_min + i * dt
                delta_x == QDiv(QSub(next[i + 2], next[i]), Whole(2 * dx))
                gamma_x == QDiv(QAdd(QSub(next[i + 2], QMul(Whole(2), next[i + 1])),
                                     next[i]), Whole(dx * dx))
                pde_term ==
                    IF use_log_space
                    THEN QSub(QSub(QMul(Whole(params.r), next[i + 1]),
                                   QMul(Whole(LogDrift("Explicit", params)), delta_x)),
                              QMul(Whole(LogDiffusion(params)), gamma_x))
                    ELSE QSub(QSub(QMul(Whole(params.r), next[i + 1]),
                                   QMul(Whole((params.r - params.q) * s_space), delta_x)),
                              QMul(Whole(LogDiffusion(params) * s_space * s_space),
                                   gamma_x))
            IN  QSub(next[i + 1], QMul(pde_term, Whole(dt)))
        node(i) == Exercised(rule, remain_time, ToPrice(use_log_space, s_min + i * dt),
                             value(i))
    IN  StepOk([k \in 1..n |-> IF k > 1 /\ k < n THEN node(k - 1).value ELSE layer[k]],
               [i \in 1..(n - 2) |-> node(i).call], NoSystem)

\* ThomasSolver as a function of its arguments.  Every pivot here is a
\* fraction of small terms, so it is below the threshold only when it is 0.
RECURSIVE ForwardElimination(_, _, _, _, _, _, _)
ForwardElimination(a, b, c, d, i, c_prime, d_prime) ==
    IF i = Len(d) THEN [tag |-> "Ok", c_prime |-> c_prime, d_prime |-> d_prime]
    ELSE Only({
           IF denominator[1] = 0
           THEN [tag |-> "Err", c_prime |-> c_prime, d_prime |-> d_prime]
           ELSE Only({ForwardElimination(a, b, c, d, i + 1, row[1], row[2]) :
                  row \in {<<Append(c_prime,
                                    IF i < Len(d) - 1 THEN QDiv(c[i + 1], denominator)
                                    ELSE Whole(0)),
                             Append(d_prime,
                                    IF i = 0 THEN QDiv(d[1], denominator)
                                    ELSE QDiv(QSub(d[i + 1], QMul(a[i], d_prime[i])),
                                              denominator))>>}}) :
           denominator \in {IF i = 0 THEN b[1]
                            ELSE QSub(b[i + 1], QMul(a[i], c_prime[i]))}})

RECURSIVE BackSubstitution(_, _, _, _)
BackSubstitution(c_prime, d_prime, i, x) ==
    IF i = 0 THEN x
    ELSE Only({BackSubstitution(c_prime, d_prime, i - 1, <<xi>> \o x) :
                 xi \in {QSub(d_prime[i], QMul(c_prime[i], x[1]))}})

ThomasSolution(a, b, c, d) ==
    IF Len(d) = 0 THEN ThOk(<<>>)
    ELSE IF LengthMismatch(Len(a), Len(b), Len(c), Len(d)) THEN ThErr("InvalidParameter")
    ELSE Only({IF f.tag = "Err" THEN ThErr("CalculationError")
               ELSE ThOk(BackSubstitution(f.c_prime, f.d_prime, Len(d) - 1,
                                          <<f.d_prime[Len(d)]>>)) :
                 f \in {ForwardElimination(a, b, c, d, 0, <<>>, <<>>)}})

\* alpha of the implicit step at position s_space, and half of it in
\* Crank-Nicolson's rows
Alpha(use_log_space, params, s_space, dt, dx) ==
    IF use_log_space THEN Frac(LogDiffusion(params) * dt, dx * dx)
    ELSE Frac(LogDiffusion(params) * s_space * s_space * dt, dx * dx)

Beta(method, use_log_space, params, s_space, dt, dx) ==
    IF use_log_space THEN Frac(LogDrift(method, params) * dt, 2 * dx)
    ELSE Frac((params.r - params.q) * s_space * dt, 2 * dx)

\* the end of the two steps that solve a system: the error of the solver,
\* or the exercise test at every interior node; ends are the boundary
\* nodes as the step leaves them
AfterSolver(system, solved, ends, s_min, dx, rule, remaining_time, use_log_space, layer) ==
    LET n == Len(layer)
        node(i) == Exercised(rule, remaining_time,
                             ToPrice(use_log_space, s_min + i * dx), solved.x[i + 1])
    IN  IF solved.tag = "Err" THEN StepErr(solved.err, layer, system)
        ELSE StepOk([k \in 1..n |->
                       IF k > 1 /\ k < n THEN node(k - 1).value ELSE ends[k]],
                    [i \in 1..(n - 2) |-> node(i).call], system)

\* ImplicitMethod::step_back
ImplicitStep(layer, next, s_min, dx, dt, params, rule, remaining_time, use_log_space) ==
    LET n == Len(layer)
        alpha(i) == Alpha(use_log_space, params, s_min + i * dx, dt, dx)
        beta(i) == Beta("Implicit", use_log_space, params, s_min + i * dx, dt, dx)
        a == [k \in 1..(n - 1) |->
                IF k < n - 1 THEN QAdd(QSub(Whole(0), alpha(k)), beta(k)) ELSE Whole(0)]
        b == [k \in 1..n |->
                IF k = 1 \/ k = n THEN Whole(1)
                ELSE QAdd(QAdd(Whole(1), QMul(Whole(2), alpha(k - 1))), Whole(params.r * dt))]
        c == [k \in 1..(n - 1) |->
                IF k = 1 THEN Whole(0)
                ELSE QSub(QSub(Whole(0), alpha(k - 1)), beta(k - 1))]
        rhs == [k \in 1..n |-> IF k = 1 \/ k = n THEN layer[k] ELSE next[k]]
    IN  Only({AfterSolver(system, solved, solved.x, s_min, dx, rule,
                          remaining_time, use_log_space, layer) :
                 system \in {[a |-> a, b |-> b, c |-> c, d |-> rhs]},
                 solved \in {ThomasSolution(a, b, c, rhs)}})

\* CrankNicolsonMethod::step_back
CrankNicolsonStep(layer, next, s_min, dx, dt, params, rule, remaining_time, use_log_space) ==
    LET n == Len(layer)
        s0 == params.s0
        half == Frac(1, 2)
        copied == [layer EXCEPT ![1] = next[1], ![n] = next[n]]
        alpha(i) == Alpha(use_log_space, params, s_min + i * dx, dt, dx)
        beta(i) == Beta("CrankNicolson", use_log_space, params, s_min + i * dx, dt, dx)
        alpha_0 == IF use_log_space THEN Frac(LogDiffusion(params) * dt, dx * dx)
                   ELSE Frac(LogDiffusion(params) * s0 * s0 * dt, 100 * dx * dx)
        alpha_n == IF use_log_space THEN Frac(LogDiffusion(params) * dt, dx * dx)
                   ELSE Frac(LogDiffusion(params) * 4 * s0 * s0 * dt, dx * dx)
        half_r_dt == Frac(params.r * dt, 2)
        a == [k \in 1..n |->
                IF k = 1 \/ k = n THEN Whole(0)
                ELSE QMul(half, QSub(beta(k - 1), alpha(k - 1)))]
        b == [k \in 1..n |->
                CASE k = 1 -> QAdd(QAdd(Whole(1), alpha_0), half_r_dt)
                  [] k = n -> QAdd(QAdd(Whole(1), alpha_n), half_r_dt)
                  [] OTHER -> QAdd(QAdd(Whole(1), alpha(k - 1)), half_r_dt)]
        c == [k \in 1..n |->
                IF k = 1 \/ k = n THEN Whole(0)
                ELSE QMul(half, QSub(QSub(Whole(0), alpha(k - 1)), beta(k - 1)))]
        rhs == [k \in 1..n |->
                CASE k = 1 -> QMul(QSub(QSub(Whole(1), alpha_0), half_r_dt), next[1])
                  [] k = n -> QMul(QSub(QSub(Whole(1), alpha_n), half_r_dt), next[n])
                  [] OTHER -> QSub(QAdd(QMul(QSub(Whole(0), a[k]), next[k - 1]),
                                        QMul(QSub(Whole(2), b[k]), next[k])),
                                   QMul(c[k], next[k + 1]))]
    IN  Only({AfterSolver(system, solved, copied, s_min, dx, rule,
                          remaining_time, use_log_space, copied) :
                 system \in {[a |-> a, b |-> b, c |-> c, d |-> rhs]},
                 solved \in {ThomasSolution(a, b, c, rhs)}})

NoStep == [tag |-> "None", err |-> "", layer |-> <<>>, calls |-> <<>>, system |-> NoSystem]

NoLayerCall ==
    [pc |-> "idle", method |-> "", use_log_space |-> FALSE, x_steps |-> 0,
     params |-> [s0 |-> 0, r |-> 0, q |-> 0, sigma |-> 0], dt |-> 0, dx |-> 0,
     bc |-> [type |-> "", strike |-> 0, risk_free_rate |-> 0], rule |-> "",
     grid |-> <<>>, n |-> 0, step |-> NoStep, tag |-> "None", err |-> ""]

\* s_min of calculate_price: 0.1*s0, or its logarithm
SMin(params, use_log_space) == IF use_log_space THEN 0 ELSE params.s0 \div 10

\* stability_factor > 0.5 for the explicit scheme
LayerUnstable(method, use_log_space, params, dt, dx) ==
    /\ method = "Explicit"
    /\ 2 * params.sigma * params.sigma * dt
          * (IF use_log_space THEN 1 ELSE 4 * params.s0 * params.s0) > dx * dx

\* the terminal condition
TerminalNodes(params, use_log_space, x_steps, dx) ==
    [k \in 1..(x_steps + 1) |->
        PayoffAtPoint(LayerPayoff,
                      ToPrice(use_log_space, SMin(params, use_log_space) + (k - 1) * dx))]

\* remaining_time of layer n
RemainingTime(n, dt) == (TimeLayers - n) * dt

\* calculate_price up to the loop: the stability check, the grid and the
\* terminal condition
calculate_price_begin(method, use_log_space, x_steps, params, steps, bc, rule) ==
    /\ ly.pc = "idle"
    /\ ly' =
          LET call == [NoLayerCall EXCEPT !.method = method,
                          !.use_log_space = use_log_space, !.x_steps = x_steps,
                          !.params = params, !.dt = steps.dt, !.dx = steps.dx,
                          !.bc = bc, !.rule = rule]
          IN  IF LayerUnstable(method, use_log_space, params, steps.dt, steps.dx)
              THEN [call EXCEPT !.pc = "done", !.tag = "Err", !.err = "Other"]
              ELSE [call EXCEPT !.pc = "loop", !.n = TimeLayers,
                       !.grid = [t \in 1..(TimeLayers + 1) |->
                                   IF t = TimeLayers + 1
                                   THEN TerminalNodes(params, use_log_space, x_steps,
                                                      steps.dx)
                                   ELSE [k \in 1..(x_steps + 1) |-> Whole(0)]]]
    /\ UNCHANGED lyRest

\* whether a boundary value of layer call.n - 1 is an error
BoundaryFails(call) ==
    \/ lower_boundary(call.bc, RemainingTime(call.n - 1, call.dt)).tag = "Err"
    \/ upper_boundary(call.bc, RemainingTime(call.n - 1, call.dt)).tag = "Err"

\* the boundary nodes of layer call.n - 1, then PDEMethod::step_back of the
\* scheme of the engine
StepBack(call) ==
    LET n == call.n - 1
        remaining_time == RemainingTime(n, call.dt)
        lower == lower_boundary(call.bc, remaining_time)
        upper == upper_boundary(call.bc, remaining_time)
        layer == [call.grid[n + 1] EXCEPT ![1] = lower.value,
                                          ![call.x_steps + 1] = upper.value]
        next == call.grid[n + 2]
        s_min == SMin(call.params, call.use_log_space)
    IN  CASE call.method = "Explicit" ->
                ExplicitStep(layer, next, s_min, call.dx, call.dt, call.params,
                             call.rule, remaining_time, call.use_log_space)
          [] call.method = "Implicit" ->
                ImplicitStep(layer, next, s_min, call.dx, call.dt, call.params,
                             call.rule, remaining_time, call.use_log_space)
          [] OTHER ->
                CrankNicolsonStep(layer, next, s_min, call.dx, call.dt, call.params,
                                  call.rule, remaining_time, call.use_log_space)

\* one pass of the loop: the boundary nodes of layer n, then step_back
calculate_price_layer ==
    /\ ly.pc = "loop"
    /\ ly' = Only({
          LET n == ly.n - 1
              stepped == [ly EXCEPT !.n = n, !.step = step,
                                    !.grid = [ly.grid EXCEPT ![n + 1] = step.layer]]
          IN  IF BoundaryFails(ly)
              THEN [ly EXCEPT !.pc = "done", !.tag = "Err", !.err = "NotImplemented"]
              ELSE IF step.tag = "Err"
              THEN [stepped EXCEPT !.pc = "done", !.tag = "Err", !.err = step.err]
              ELSE IF n = 0 THEN [stepped EXCEPT !.pc = "done", !.tag = "Ok"]
              ELSE stepped :
          step \in {IF BoundaryFails(ly) THEN NoStep ELSE StepBack(ly)}})
    /\ UNCHANGED lyRest

\* the caller takes the result; the price read from layer 0 is the subject
\* of the interpolation above
calculate_price_end ==
    /\ ly.pc = "done"
    /\ ly' = NoLayerCall
    /\ UNCHANGED lyRest

InitLayer == ly = NoLayerCall

NextLayer ==
    \/ \E method \in FiniteDifferenceMethod, use_log_space \in BOOLEAN,
          x_steps \in 2..(MaxLayerNodes - 1), params \in LayerParams,
          steps \in LayerSteps, bc \in BoundaryConditions, rule \in ExerciseRules :
          calculate_price_begin(method, use_log_space, x_steps, params, steps, bc, rule)
    \/ calculate_price_layer
    \/ calculate_price_end

\* a pass of the loop has run step_back for layer ly.n
Stepped == ly.pc \in {"loop", "done"} /\ ly.step.tag # "None"

\* C23: after the backward step for layer n, for each of the three
\* schemes, grid[n][0] is lower_boundary and grid[n][x_steps] is
\* upper_boundary of the remaining time at layer n: no scheme overwrites a
\* boundary node, and early exercise is never applied to one.
C23_BoundaryNodesKept ==
    Stepped =>
        /\ ly.grid[ly.n + 1][1]
              = lower_boundary(ly.bc, RemainingTime(ly.n, ly.dt)).value
        /\ ly.grid[ly.n + 1][ly.x_steps + 1]
              = upper_boundary(ly.bc, RemainingTime(ly.n, ly.dt)).value

\* the spot of node i on the grid of the call: to_price(s_min + i*dx)
SpotAtNode(i) ==
    ToPrice(ly.use_log_space, SMin(ly.params, ly.use_log_space) + i * ly.dx)

\* C24: early exercise is applied identically by the three schemes: at every
\* interior node i each calls should_exercise(remainingTime, spotAtNode,
\* payoff(spotAtNode), solvedValue) with spotAtNode = to_price(s_min + i*dx),
\* the spot of the terminal layer, and stores payoff(spotAtNode) if it
\* returns true and solvedValue otherwise.
C24_ExerciseAtNodeSpot ==
    (Stepped /\ ly.step.tag = "Ok") =>
        /\ Len(ly.step.calls) = ly.x_steps - 1
        /\ \A i \in 1..(ly.x_steps - 1) :
              LET call == ly.step.calls[i]
              IN  /\ call.time = RemainingTime(ly.n, ly.dt)
                  /\ call.spot = SpotAtNode(i)
                  /\ call.intrinsic_value = PayoffAtPoint(LayerPayoff, SpotAtNode(i))
                  /\ ly.grid[ly.n + 1][i + 1]
                        = Exercised(ly.rule, call.time, SpotAtNode(i),
                                    call.continuation_value).value

\* C25: on the log grid the three schemes use the diffusion coefficient
\* 0.5*sigma^2 and the drift coefficient r - q - 0.5*sigma^2, so the drift of
\* the explicit and Crank-Nicolson steps is the drift of the implicit step.
C25_LogDrift ==
    (Stepped /\ ly.use_log_space) =>
        /\ LogDiffusion(ly.params) = (ly.params.sigma * ly.params.sigma) \div 2
        /\ LogDrift(ly.method, ly.params)
              = ly.params.r - ly.params.q - (ly.params.sigma * ly.params.sigma) \div 2
        /\ LogDrift(ly.method, ly.params) = LogDrift("Implicit", ly.params)

\* C28: the system a step hands to ThomasSolver is well-formed for n >= 3:
\* the sub- and super-diagonal have n-1 entries, the diagonal and the
\* right-hand side n, so neither the implicit nor the Crank-Nicolson step
\* is rejected by the dimension check.
C28_SystemWellFormed ==
    (Stepped /\ ly.method \in {"Implicit", "CrankNicolson"} /\ ly.x_steps + 1 >= 3) =>
        /\ Len(ly.step.system.d) = ly.x_steps + 1
        /\ Len(ly.step.system.b) = ly.x_steps + 1
        /\ Len(ly.step.system.a) = ly.x_steps
        /\ Len(ly.step.system.c) = ly.x_steps
        /\ ~(ly.step.tag = "Err" /\ ly.step.err = "InvalidParameter")

(***************************************************************************)
(* The total payoff of MonteCarloEngine::calculate_price                   *)
(* (core/monte_carlo.rs 157-218, 268-276) with the outcome of every path   *)
(* simulation given: the payoff of the path, or the error of the process.  *)
(* An engine built in parallel mode keeps the mode when set_num_simulation *)
(* lowers the count, so small counts occur in the four modes.  The         *)
(* discount factor multiplies the average and is left out.                 *)
(***************************************************************************)
MaxSimulations == 4

SimulatedPayoffs == {0, 3}

PathOk(payoffs) == [tag |-> "Ok", err |-> "", payoffs |-> payoffs]
PathErr(e) == [tag |-> "Err", err |-> e, payoffs |-> <<>>]

\* what one iteration simulates: a path, or an antithetic pair
IterationOutcomes(use_antithetic) ==
    {PathErr("InvalidParameter")}
    \cup IF use_antithetic
         THEN {PathOk(<<p1, p2>>) : p1 \in SimulatedPayoffs, p2 \in SimulatedPayoffs}
         ELSE {PathOk(<<p>>) : p \in SimulatedPayoffs}

TotalEngines ==
    [num_simulations : 1..MaxSimulations, use_antithetic : BOOLEAN,
     use_parallel : BOOLEAN]

\* iters, num_seeds
Iterations(engine) ==
    IF engine.use_antithetic THEN engine.num_simulations \div 2
    ELSE engine.num_simulations

RECURSIVE SumOf(_)
SumOf(seq) == IF Len(seq) = 0 THEN 0 ELSE seq[1] + SumOf(Tail(seq))

\* the value an iteration contributes in parallel mode, with unwrap_or(0.0)
ValueOrZero(outcome) == IF outcome.tag = "Ok" THEN SumOf(outcome.payoffs) ELSE 0

TpOk(total, added) == [tag |-> "Ok", err |-> "", total |-> total, added |-> added]
TpErr(e) == [tag |-> "Err", err |-> e, total |-> 0, added |-> 0]
NoTpResult == [tag |-> "None", err |-> "", total |-> 0, added |-> 0]

\* the number of path payoffs in the outcomes that succeeded
PayoffsAdded(outcomes) ==
    SumOf([i \in 1..Len(outcomes) |-> Len(outcomes[i].payoffs)])

\* calculate_total_payoff_serial: the first error ends the loop
TotalPayoffSerial(outcomes) ==
    LET failed == {i \in 1..Len(outcomes) : outcomes[i].tag = "Err"}
    IN  IF failed # {}
        THEN TpErr(outcomes[CHOOSE i \in failed : \A j \in failed : i <= j].err)
        ELSE TpOk(SumOf([i \in 1..Len(outcomes) |-> SumOf(outcomes[i].payoffs)]),
                  PayoffsAdded(outcomes))

\* calculate_total_payoff_parallel
TotalPayoffParallel(outcomes) ==
    TpOk(SumOf([i \in 1..Len(outcomes) |-> ValueOrZero(outcomes[i])]),
         PayoffsAdded(outcomes))

NoTpCall ==
    [op |-> "none",
     engine |-> [num_simulations |-> 0, use_antithetic |-> FALSE, use_parallel |-> FALSE],
     outcomes |-> <<>>, result |-> NoTpResult]

\* calculate_price: the total payoff of the mode, divided by num_simulations
\* by the caller of the total
total_payoff(engine, outcomes) ==
    /\ tp.op = "none"
    /\ tp' = [op |-> "calculate_price", engine |-> engine, outcomes |-> outcomes,
              result |-> IF engine.use_parallel THEN TotalPayoffParallel(outcomes)
                         ELSE TotalPayoffSerial(outcomes)]
    /\ UNCHANGED tpRest

total_payoff_return ==
    /\ tp.op # "none"
    /\ tp' = NoTpCall
    /\ UNCHANGED tpRest

InitTotalPayoff == tp = NoTpCall

NextTotalPayoff ==
    \/ \E engine \in TotalEngines :
          \E outcomes \in [1..Iterations(engine)
                              -> IterationOutcomes(engine.use_antithetic)] :
             total_payoff(engine, outcomes)
    \/ total_payoff_return

PathFailed == \E i \in 1..Len(tp.outcomes) : tp.outcomes[i].tag = "Err"

\* C26: the price is discount * total / (number of path payoffs summed): in
\* the four modes and for every simulation count, odd ones included, the
\* number of path payoffs added to the total is the divisor num_simulations.
C26_DivisorIsPathCount ==
    (tp.op = "calculate_price" /\ ~PathFailed) =>
        /\ tp.result.tag = "Ok"
        /\ tp.result.added = tp.engine.num_simulations

\* C27: when the simulation of a path or pair fails, the call returns that
\* error in parallel mode as in serial mode; a failed path is never replaced
\* by a payoff of 0 and averaged into a price.
C27_PathErrorReturned ==
    (tp.op = "calculate_price" /\ PathFailed) =>
        tp.result = TpErr("InvalidParameter")

(***************************************************************************)
(* The factors of BinomialEngine::price (core/binomial.rs 41-48).  Rates   *)
(* and the volatility are in units of ln 2 and the maturity is the step    *)
(* count or four times it, so dt is 1 or 4 and every exponential is a      *)
(* power of 2.  An f64 is a fraction, an infinity or NaN.                  *)
(***************************************************************************)
FactorRates == {0 - 1, 0, 1, 2}
FactorYields == {0, 1, 2}
FactorVolatilities == {0, 1, 2}
FactorSteps == {MinSteps, MinSteps + 1}

\* the parameters CommonParams::new accepts, time_to_maturity > 0
FactorParams ==
    [risk_free_rate : FactorRates, dividend_yield : FactorYields,
     volatility : FactorVolatilities, step_time : {1, 4}]

Finite(v) == [kind |-> "finite", v |-> v]
PosInf == [kind |-> "inf", v |-> Whole(1)]
NegInf == [kind |-> "-inf", v |-> Whole(0 - 1)]
NaN == [kind |-> "nan", v |-> Whole(0)]

\* (x * ln 2).exp()
Exp2(x) == IF x >= 0 THEN Whole(Pow(2, x)) ELSE Frac(1, Pow(2, 0 - x))

\* dt.sqrt() for dt = 1 and dt = 4
SqrtOf(dt) == CASE dt = 1 -> 1 [] dt = 4 -> 2

\* x / y in f64, for fractions x and y
FDiv(x, y) ==
    IF y[1] # 0 THEN Finite(QDiv(x, y))
    ELSE IF x[1] = 0 THEN NaN
    ELSE IF x[1] > 0 THEN PosInf ELSE NegInf

\* x * c in f64, for a fraction c > 0
FTimes(x, c) == IF x.kind = "finite" THEN Finite(QMul(x.v, c)) ELSE x

\* 1.0 - x in f64
OneMinus(x) ==
    CASE x.kind = "finite" -> Finite(QSub(Whole(1), x.v))
      [] x.kind = "inf" -> NegInf
      [] x.kind = "-inf" -> PosInf
      [] x.kind = "nan" -> NaN

\* dt, u, d, a, disc, p, p_u, p_d
Factors(params, steps) ==
    LET dt == (params.step_time * steps) \div steps
        u == Exp2(params.volatility * SqrtOf(dt))
        d == QDiv(Whole(1), u)
        a == (params.risk_free_rate - params.dividend_yield) * dt
        disc == Exp2(0 - params.risk_free_rate * dt)
        p == FDiv(QSub(Exp2(a), d), QSub(u, d))
    IN  [u |-> u, d |-> d, p |-> p, p_u |-> FTimes(p, disc),
         p_d |-> FTimes(OneMinus(p), disc)]

NoFactors ==
    [op |-> "none", steps |-> 0,
     params |-> [risk_free_rate |-> 0, dividend_yield |-> 0, volatility |-> 0,
                 step_time |-> 1],
     f |-> [u |-> Whole(1), d |-> Whole(1), p |-> NaN, p_u |-> NaN, p_d |-> NaN]]

\* BinomialEngine::price up to the weights, for time_to_maturity > 0
binomial_factors(params, steps) ==
    /\ bf.op = "none"
    /\ bf' = [op |-> "price", steps |-> steps, params |-> params,
              f |-> Only({f : f \in {Factors(params, steps)}})]
    /\ UNCHANGED bfRest

binomial_factors_return ==
    /\ bf.op # "none"
    /\ bf' = NoFactors
    /\ UNCHANGED bfRest

InitFactors == bf = NoFactors

NextFactors ==
    \/ \E params \in FactorParams, steps \in FactorSteps :
          binomial_factors(params, steps)
    \/ binomial_factors_return

\* 0 <= x for an f64
NonNegative(x) == x.kind = "inf" \/ (x.kind = "finite" /\ x.v[1] >= 0)

\* x < y for fractions
Below(x, y) == x[1] * y[2] < y[1] * x[2]

\* C29: for accepted parameters with time to maturity > 0, volatility 0
\* included, and a step count of 10 or more, u > d, so p is computed without
\* a division by zero, lies in [0, 1], and p*disc and (1-p)*disc are
\* non-negative.
C29_Probability ==
    bf.op = "price" =>
        /\ Below(bf.f.d, bf.f.u)
        /\ bf.f.p.kind = "finite"
        /\ bf.f.p.v[1] >= 0
        /\ bf.f.p.v[1] <= bf.f.p.v[2]
        /\ NonNegative(bf.f.p_u)
        /\ NonNegative(bf.f.p_d)

(***************************************************************************)
(* d1 and d2: calculate_d1_d2 (utils/statistics.rs 44-48), which the       *)
(* vanilla and the binary calculator call, and european_call               *)
(* (black_scholes/mod.rs 48-50).  Spot and strike are powers of e, given   *)
(* by their logarithms; the time to maturity is 1 or 4; d1 and d2 are      *)
(* fractions.                                                              *)
(***************************************************************************)
D1D2Params ==
    [spot_ln : {0, 1}, strike_ln : {0, 1}, risk_free_rate : {0, 1, 2},
     dividend_yield : {0, 1}, volatility : {0, 1, 2}, time_to_maturity : {1, 4}]

D1D2Calculators == {"VanillaCalculator", "BinaryCalculator"}

DdOk(d1, d2) == [tag |-> "Ok", err |-> "", d1 |-> d1, d2 |-> d2]
DdErr(e) == [tag |-> "Err", err |-> e, d1 |-> Whole(0), d2 |-> Whole(0)]
DdIntrinsic == [tag |-> "Intrinsic", err |-> "", d1 |-> Whole(0), d2 |-> Whole(0)]
NoDd == [tag |-> "None", err |-> "", d1 |-> Whole(0), d2 |-> Whole(0)]

\* d1 and d2 = d1 - sigma_sqrt_t, from twice the numerator of d1
D1AndD2(twice, sigma_sqrt_t) ==
    DdOk(Frac(twice, 2 * sigma_sqrt_t),
         QSub(Frac(twice, 2 * sigma_sqrt_t), Whole(sigma_sqrt_t)))

\* d1 with the whole of r - q + sigma^2/2 multiplied by the time
D1D2Reference(params) ==
    IF params.volatility <= 0 THEN DdErr("InvalidParameter")
    ELSE D1AndD2(2 * (params.spot_ln - params.strike_ln)
                   + (2 * (params.risk_free_rate - params.dividend_yield)
                      + params.volatility * params.volatility)
                     * params.time_to_maturity,
                 params.volatility * SqrtOf(params.time_to_maturity))

\* calculate_d1_d2 for a spot and a strike above 0 and a time above 0:
\* d1=(ln_sk+(risk_free_rate-dividend_yield
\*            +0.5*volatility.powi(2)*time_to_maturity))/sigma_sqrt_t
D1D2(params) ==
    IF params.volatility <= 0 THEN DdErr("InvalidParameter")
    ELSE D1AndD2(2 * (params.spot_ln - params.strike_ln)
                   + 2 * (params.risk_free_rate - params.dividend_yield)
                   + params.volatility * params.volatility
                     * params.time_to_maturity,
                 params.volatility * SqrtOf(params.time_to_maturity))

\* european_call for T > 0:
\* d1=(S.ln()-K.ln()+(r-q+0.5*sigma.powi(2))*T)/(sigma*sqrt_t)
EuropeanCallD1D2(params) ==
    IF params.volatility = 0 THEN DdIntrinsic
    ELSE D1AndD2(2 * (params.spot_ln - params.strike_ln)
                   + (2 * (params.risk_free_rate - params.dividend_yield)
                      + params.volatility * params.volatility)
                     * params.time_to_maturity,
                 params.volatility * SqrtOf(params.time_to_maturity))

\* The terms of a call price S*e^(-qT)*N(d1) - K*e^(-rT)*N(d2)
CallPrice(params, d) ==
    [tag |-> d.tag, spot_ln |-> params.spot_ln,
     qt |-> params.dividend_yield * params.time_to_maturity, n_d1 |-> d.d1,
     strike_ln |-> params.strike_ln,
     rt |-> params.risk_free_rate * params.time_to_maturity, n_d2 |-> d.d2]

NoD1D2Call ==
    [op |-> "none", calculator |-> "",
     params |-> [spot_ln |-> 0, strike_ln |-> 0, risk_free_rate |-> 0,
                 dividend_yield |-> 0, volatility |-> 0, time_to_maturity |-> 1],
     d |-> NoDd, european |-> NoDd]

\* VanillaCalculator::calculate for a call and BinaryCalculator::calculate
\* for a cash-or-nothing call, with european_call on the same inputs
analytic_call(calculator, params) ==
    /\ dd.op = "none"
    /\ dd' = [op |-> "calculate", calculator |-> calculator, params |-> params,
              d |-> Only({d : d \in {D1D2(params)}}),
              european |-> Only({d : d \in {EuropeanCallD1D2(params)}})]
    /\ UNCHANGED ddRest

analytic_call_return ==
    /\ dd.op # "none"
    /\ dd' = NoD1D2Call
    /\ UNCHANGED ddRest

InitD1D2 == dd = NoD1D2Call

NextD1D2 ==
    \/ \E calculator \in D1D2Calculators, params \in D1D2Params :
          analytic_call(calculator, params)
    \/ analytic_call_return

\* C30: for a time to maturity above 0, the d1 and d2 the vanilla and the
\* binary calculator use are d1 = [ln(S/K) + (r - q + sigma^2/2)*T] /
\* (sigma*sqrt(T)) and d2 = d1 - sigma*sqrt(T), so the call price of
\* VanillaCalculator is that of european_call for the same inputs.
C30_D1D2 ==
    (dd.op = "calculate" /\ dd.params.volatility > 0) =>
        /\ dd.d = D1D2Reference(dd.params)
        /\ dd.calculator = "VanillaCalculator" =>
              CallPrice(dd.params, dd.d) = CallPrice(dd.params, dd.european)

(***************************************************************************)
(* Specifications: one per component, each leaving the others at rest.     *)
(***************************************************************************)
Init ==
    /\ InitAnalytic /\ InitPDE /\ InitBinomial /\ InitParams /\ InitMC
    /\ InitTotal /\ InitShared /\ InitPricing /\ InitThomas /\ InitImpliedVol /\ InitExercise /\ InitPercentage /\ InitInterpolate /\ InitPath /\ InitLayer /\ InitTotalPayoff /\ InitFactors /\ InitD1D2

SpecAnalytic == Init /\ [][NextAnalytic]_vars
SpecPDE      == Init /\ [][NextPDE]_vars
SpecBinomial == Init /\ [][NextBinomial]_vars
SpecParams   == Init /\ [][NextParams]_vars
SpecMC       == Init /\ [][NextMC]_vars
SpecTotal    == Init /\ [][NextTotal]_vars
SpecShared   == Init /\ [][NextShared]_vars
SpecPricing  == Init /\ [][NextPricing]_vars
SpecThomas   == Init /\ [][NextThomas]_vars
SpecImpliedVol ==
    Init /\ [][NextImpliedVol]_vars /\ WF_vars(NextImpliedVol)
SpecExercise == Init /\ [][NextExercise]_vars
SpecPercentage == Init /\ [][NextPercentage]_vars
SpecInterpolate == Init /\ [][NextInterpolate]_vars
SpecPath     == Init /\ [][NextPath]_vars
SpecLayer    == Init /\ [][NextLayer]_vars

SpecTotalPayoff== Init /\ [][NextTotalPayoff]_vars
SpecFactors  == Init /\ [][NextFactors]_vars
SpecD1D2     == Init /\ [][NextD1D2]_vars

Next ==
    \/ NextAnalytic \/ NextPDE \/ NextBinomial \/ NextParams \/ NextMC
    \/ NextTotal \/ NextShared \/ NextPricing \/ NextThomas \/ NextImpliedVol \/ NextExercise \/ NextPercentage \/ NextInterpolate \/ NextPath \/ NextLayer \/ NextTotalPayoff \/ NextFactors \/ NextD1D2
Spec == Init /\ [][Next]_vars

(***************************************************************************)
(* The analytic registry.                                                  *)
(***************************************************************************)
AnKind == analytic_type(anLast.payoff)

EuropeanPriceOfKind ==
    anLast.op = "price" /\ is_european(anLast.rule) /\ AnKind # NoKind

\* C1: after any sequence of register_calculator / remove_calculator calls,
\* a European price of kind k reaches a calculator exactly when k is
\* registered; while k is removed the price fails NotImplemented; once k is
\* registered (again) the price is the one the freshly built engine gives
\* for the same input; remove_calculator(k) removes k and changes the
\* registration of no other kind.
C1_RegistryDispatch ==
    /\ EuropeanPriceOfKind =>
         /\ (anLast.calc # "NoCalculator") <=> (AnKind \in DOMAIN calculators)
         /\ AnKind \notin DOMAIN calculators => anLast.result = Err("NotImplemented")
         /\ AnKind \in DOMAIN calculators =>
              /\ anLast.calc = AnalyticEngineNew[AnKind]
              /\ anLast.result =
                    AnalyticPrice(AnalyticEngineNew, anLast.params, anLast.payoff,
                                  anLast.rule)
    /\ anLast.op = "remove" =>
         /\ anLast.typ \notin DOMAIN calculators
         /\ \A k \in AnalyticPayoffType \ {anLast.typ} :
              /\ (k \in DOMAIN calculators) <=> (k \in DOMAIN anLast.before)
              /\ k \in DOMAIN calculators => calculators[k] = anLast.before[k]
    /\ anLast.op = "register" =>
         \A k \in supported_types(anLast.calc) : k \in DOMAIN calculators

\* A vanilla put priced right after the kind, removed earlier, was registered again
C1_Witness ==
    /\ EuropeanPriceOfKind
    /\ anLast.restored
    /\ AnKind = "VanillaPut"
    /\ anLast.result = Ok("vanilla_put", 0)

\* C2: AnalyticEngine::price fails InvalidParameter when the exercise is not
\* European (checked first), and NotImplemented both when the payoff declares
\* no analytic kind and when no calculator is registered for the kind.
C2_PriceErrors ==
    anLast.op = "price" =>
        /\ ~is_european(anLast.rule) => anLast.result = Err("InvalidParameter")
        /\ is_european(anLast.rule) /\ AnKind = NoKind =>
              anLast.result = Err("NotImplemented")
        /\ is_european(anLast.rule) /\ AnKind # NoKind
              /\ AnKind \notin DOMAIN calculators =>
              anLast.result = Err("NotImplemented")

\* C3: every calculator, given a payoff whose concrete type it does not
\* handle, returns InvalidParameter, at every maturity.
C3_MismatchRejected ==
    anLast.op = "calculate" /\ anLast.payoff.type \notin HandledTypes(anLast.calc) =>
        anLast.result = Err("InvalidParameter")

(***************************************************************************)
(* Engine configuration.                                                   *)
(***************************************************************************)
\* C4: every PDE engine has x_steps >= 50 and t_steps >= 50, and
\* x_steps >= 100 and t_steps >= 100 under log space; a rejected call fails
\* InvalidParameter and leaves the grid size unchanged.
C4_PDEGridBounds ==
    /\ \A i \in 1..Len(pdeEngines) :
         /\ pdeEngines[i].x_steps >= MinGrid /\ pdeEngines[i].t_steps >= MinGrid
         /\ pdeEngines[i].use_log_space =>
              pdeEngines[i].x_steps >= MinLogGrid /\ pdeEngines[i].t_steps >= MinLogGrid
    /\ pdeLast.result.tag = "Err" =>
         /\ pdeLast.result = Err("InvalidParameter")
         /\ pdeLast.op = "set_grid_size" =>
              <<pdeEngines[pdeLast.idx].x_steps, pdeEngines[pdeLast.idx].t_steps>>
                 = pdeLast.before

\* C5: every Monte Carlo engine has num_simulations >= 1000 and
\* time_steps >= 1; a call that would break a bound fails InvalidParameter
\* and leaves the configuration unchanged.
C5_MCBounds ==
    /\ mc.exists => mc.num_simulations >= MinSimulations /\ mc.time_steps >= 1
    /\ mcLast.op \in {"new", "set_num_simulation"} /\ mcLast.n < MinSimulations =>
         mcLast.result = Err("InvalidParameter") /\ mc = mcLast.before
    /\ mcLast.op \in {"new", "set_time_steps"} /\ mcLast.ts < 1 =>
         mcLast.result = Err("InvalidParameter") /\ mc = mcLast.before

\* C6: a price call takes the parallel path only if the engine's current
\* num_simulations is greater than 1000.
C6_ParallelOnlyAboveThreshold ==
    mcLast.op = "price" /\ mcLast.path = "parallel" =>
        mc.num_simulations > ParallelThreshold

\* C7: get_steps() >= 10 for every binomial engine; a call with steps < 10
\* fails InvalidParameter and leaves the stored step count (and the engines
\* that exist) unchanged; a successful set_steps(n) makes get_steps() return n.
C7_BinomialSteps ==
    /\ \A i \in 1..Len(binEngines) : get_steps(binEngines[i]) >= MinSteps
    /\ binLast.op \in {"new", "with_steps", "set_steps"} =>
         /\ binLast.steps < MinSteps =>
              /\ binLast.result = Err("InvalidParameter")
              /\ Len(binEngines) = binLast.len
              /\ binLast.op = "set_steps" =>
                    get_steps(binEngines[binLast.idx]) = binLast.before
         /\ binLast.steps >= MinSteps => binLast.result.tag = "Ok"
    /\ binLast.op = "set_steps" /\ binLast.result.tag = "Ok" =>
         get_steps(binEngines[binLast.idx]) = binLast.steps

\* set_steps(n) accepted with n different from the count stored before
C7_Witness ==
    /\ binLast.op = "set_steps"
    /\ binLast.result.tag = "Ok"
    /\ binLast.steps # binLast.before
    /\ get_steps(binEngines[binLast.idx]) = binLast.steps

(***************************************************************************)
(* CommonParams.                                                           *)
(***************************************************************************)
\* C8: CommonParams::new fails InvalidParameter exactly when spot <= 0 or
\* volatility < 0 or timeToMaturity < 0 and otherwise returns a value holding
\* the given fields; with_spot, with_volatility and with_time validate the
\* perturbed copy the same way and never change the original.
C8_ParamsValidation ==
    cpLast.op # "none" =>
        /\ (cpLast.result.tag = "Err") <=>
              \/ cpLast.args.spot <= 0
              \/ cpLast.args.volatility < 0
              \/ cpLast.args.time_to_maturity < 0
        /\ cpLast.result.tag = "Err" => cpLast.result = CpErr("InvalidParameter")
        /\ cpLast.result.tag = "Ok" => cpLast.result.value = cpLast.args
        /\ cpLast.op \in {"with_spot", "with_volatility", "with_time"} =>
              cp = cpLast.before

\* with_volatility gave a copy with another volatility; the original stands
C8_Witness ==
    /\ cpLast.op = "with_volatility"
    /\ cpLast.result.tag = "Ok"
    /\ cpLast.result.value.volatility # cp.volatility
    /\ cpLast.result.value.spot = cp.spot
    /\ cp = cpLast.before

(***************************************************************************)
(* Monte Carlo: the missing process, and the parallel fan out.             *)
(***************************************************************************)
\* C9: with no process attached, price fails NotSet and simulate_paths and
\* simulate_paths_parallel return an error value; nothing panics.
C9_NoProcessNoPanic ==
    /\ mcLast.result.tag # "Panic"
    /\ \A i \in DOMAIN par.w : par.w[i].pc # "panicked"
    /\ mcLast.before.process = "None" /\ mcLast.result.tag # "None" =>
         /\ mcLast.op = "price" => mcLast.result = Err("NotSet")
         /\ mcLast.op \in {"simulate_paths", "simulate_paths_parallel"} =>
              mcLast.result.tag = "Err"

\* C10: in every parallel operation each worker simulates on a clone
\* reseeded with its own pre-generated seed, so no two workers draw from
\* clones in the same generator state.
C10_WorkersReseeded ==
    /\ \A i \in DOMAIN par.w :
         par.w[i].pc = "done" =>
            par.w[i].seeded /\ par.w[i].start = seed_from_u64(par.seeds[i])
    /\ \A i, j \in DOMAIN par.w :
         i # j /\ par.w[i].pc = "done" /\ par.w[j].pc = "done" =>
            par.w[i].start # par.w[j].start

(***************************************************************************)
(* The parallel total.                                                     *)
(***************************************************************************)
\* The (derived seed, path payoff) pairs the master seed of the engine fixes
SeedContributions ==
    {<<PreGenerate(seed_from_u64(tot.seed), MaxSumTasks)[i],
       tot.payoff_of[PreGenerate(seed_from_u64(tot.seed), MaxSumTasks)[i]]>> :
        i \in 1..MaxSumTasks}

\* C11: with a fixed master seed (seed # 0) a finished parallel total has
\* the contributions the master seed fixes, whatever the order the workers
\* ran in, and its sum is the sum the first call on the engine returned.
C11_DeterministicAggregate ==
    tot.seed # 0 /\ ~tot.running /\ tot.calls >= 1 =>
        /\ tot.contrib = SeedContributions
        /\ tot.first.contrib = SeedContributions
        /\ tot.total = tot.first.total

=============================================================================
